---- MODULE Spec2Model ----
(***************************************************************************)
(* umsg: COBS + CRC-32 framing (Framer), frame build/parse and dispatch    *)
(* (Router) and their integration with a byte transport (Node).            *)
(*                                                                         *)
(* Conventions of the model.                                               *)
(*  - A byte is a number in 0..255.  A buffer is a sequence of bytes; the  *)
(*    C++ index i is the TLA+ index i+1.                                   *)
(*  - A uint32_t is the pair <<hi, lo>> of its 16-bit halves (TLC's        *)
(*    integers are 32-bit signed); a uint16_t is a number in 0..65535.     *)
(*  - An Error is the string of its enumerator.                            *)
(***************************************************************************)
EXTENDS Integers, Sequences, FiniteSets, TLC

VARIABLES
    \* A stand-alone Framer<kMaxPacketSize> and the object registered as its
    \* packet callback.
    rxBuffer,       \* Framer::rxBuffer_
    rxIndex,        \* Framer::rxIndex_
    cbThunk,        \* Framer::cbThunk_ # 0
    cbRet,          \* the Error the registered callback returns
    \* What the caller of the Framer has done.
    feeds,          \* sequences of bytes fed so far
    cur,            \* the last sequence fed and what processByte did with it
    \* A stand-alone Router<MaxHandlers> (router.hpp).
    handlers,       \* Router::handlers_
    expectedVersion,\* Router::expectedVersion_
    \* What the caller of the Router has done.
    rlast,          \* the last frame given to onPacket and what came of it
    rreg,           \* the last registerHandler call and what came of it
    \* Two Node<Endpoint, MaxPayloadSize, MaxHandlers> on a DuplexLink
    \* (node.hpp, tests/test_node.cpp).
    node,           \* the nodes A and B
    link,           \* link[n]: the ring node n reads from, its peer writes to
    \* What the callers of the nodes have done.
    sent,           \* sent[n]: what was put into link[n] since n last polled
    plast,          \* the last poll and what came of it
    publast,        \* the last publish and what came of it
    published,      \* published[n]: the messages n's publish returned OK for
    delivered,      \* delivered[n]: the calls n's handlers got, in all polls
    nops,           \* publishes, polls and writes on the link so far
    \* One call of a function that keeps no state (cobs.hpp, framer.hpp
    \* createPacket, the packetization of node.hpp publish).
    trial           \* the call's arguments and, once made, what it returned

framerVars == << rxBuffer, rxIndex, cbThunk, cbRet, feeds, cur >>
routerVars == << handlers, expectedVersion, rlast, rreg >>
nodeVars == << node, link, sent, plast, publast, published, delivered, nops >>

codecVars == << trial >>

vars == << framerVars, routerVars, nodeVars, codecVars >>

\* ------------------------------------------------------------------ bounds

\* Node<Transport, MaxPayloadSize, MaxHandlers>: the template parameters.
MaxPayloadSize == 4
MaxHandlers == 2
\* DuplexLink<Capacity>: the ring capacity of each direction.
LinkCapacity == 36
\* Driver operations per behaviour.
MaxFeeds == 2
MaxNodeOps == 3
\* The longest of the short encoded regions given to cobsDecodeInPlace.
MaxRegion == 4

\* ------------------------------------------------------- common.hpp

kFrameHeaderSize == 8

cobsMaxOverhead(n) == (n + 253) \div 254

maxFrameSize(maxPayloadSize) == kFrameHeaderSize + maxPayloadSize

maxPacketSize(maxPayloadSize) ==
    (maxFrameSize(maxPayloadSize) + 4)
        + cobsMaxOverhead(maxFrameSize(maxPayloadSize) + 4) + 1

\* Node::kMaxFrameSize, Node::kMaxPacketSize; the tests size a stand-alone
\* Framer the same way.
kMaxFrameSize == maxFrameSize(MaxPayloadSize)
kMaxPacketSize == maxPacketSize(MaxPayloadSize)

\* ------------------------------------------------------- bit operations

\* a ^ b, bit by bit.
RECURSIVE XorBits(_, _)
XorBits(a, b) ==
    IF a = 0 THEN b
    ELSE IF b = 0 THEN a
    ELSE ((a + b) % 2) + 2 * XorBits(a \div 2, b \div 2)

\* a ^ b on bytes, tabulated once.
XorByte == [a \in 0 .. 255 |-> [b \in 0 .. 255 |-> XorBits(a, b)]]

\* a ^ b on 16-bit values.
BitXor(a, b) ==
    XorByte[a \div 256][b \div 256] * 256 + XorByte[a % 256][b % 256]

\* x ^= mask on one byte of a buffer (a transmission error).
FlipBit(byte, bit) == BitXor(byte, 2 ^ bit)

\* ------------------------------------------------------- marshalling.hpp

read_u16_be(p, at) == p[at + 1] * 256 + p[at + 2]

write_u16_be(v) == << (v \div 256) % 256, v % 256 >>

read_u32_be(p, at) ==
    << p[at + 1] * 256 + p[at + 2], p[at + 3] * 256 + p[at + 4] >>

write_u32_be(v) ==
    << (v[1] \div 256) % 256, v[1] % 256, (v[2] \div 256) % 256, v[2] % 256 >>

\* ------------------------------------------------------- crc32.hpp

\* CrcShift with the polynomial in its unreflected form, 0x04C11DB7.
CrcShift_unreflected(crc) ==
    LET hi == crc[1] \div 2
        lo == (crc[2] \div 2) + (crc[1] % 2) * 32768
    IN  IF crc[2] % 2 = 1
        THEN << BitXor(hi, 1217), BitXor(lo, 7607) >>
        ELSE << hi, lo >>

\* One iteration of the inner loop: if (crc & 1) crc = (crc >> 1) ^ 0xEDB88320
\* else crc >>= 1.   0xEDB8 = 60856, 0x8320 = 33568.
CrcShift(crc) ==
    LET hi == crc[1] \div 2
        lo == (crc[2] \div 2) + (crc[1] % 2) * 32768
    IN  IF crc[2] % 2 = 1
        THEN << BitXor(hi, 60856), BitXor(lo, 33568) >>
        ELSE << hi, lo >>

RECURSIVE CrcBits(_, _)
CrcBits(crc, bit) == IF bit = 8 THEN crc ELSE CrcBits(CrcShift(crc), bit + 1)

\* One iteration of the outer loop: crc ^= data[i], then the 8 bit steps.
CrcByte(crc, byte) == CrcBits(<< crc[1], BitXor(crc[2], byte) >>, 0)

\* for (i = from; i < to; ++i): the iterations run in index order.  The range
\* is halved, and the first half evaluated (as the one element of a set) before
\* the second starts, only to keep TLC's evaluation stack shallow on long
\* inputs.
RECURSIVE CrcLoop(_, _, _, _)
CrcLoop(crc, data, i, length) ==
    IF i >= length THEN crc
    ELSE IF length - i = 1 THEN CrcByte(crc, data[i + 1])
    ELSE LET mid == i + (length - i) \div 2
         IN  CHOOSE r \in { CrcLoop(c, data, mid, length) :
                               c \in { CrcLoop(crc, data, i, mid) } } : TRUE

crc32_iso_hdlc(data, length) ==
    LET crc == CrcLoop(<< 65535, 65535 >>, data, 0, length)
    IN  << BitXor(crc[1], 65535), BitXor(crc[2], 65535) >>

\* ------------------------------------------------------- cobs.hpp

\* CobsBegin that starts the first group's code at 0.
CobsBegin_codeZero(output, outputCapacity) ==
    LET e == [out |-> output, cap |-> outputCapacity, codeIndex |-> 0,
              writeIndex |-> 1, code |-> 0, ok |-> TRUE, inside |-> TRUE]
    IN  IF outputCapacity = 0
        THEN [e EXCEPT !.ok = FALSE]
        ELSE [e EXCEPT !.out[1] = 0]

\* CobsEncoder::begin.  The encoder is the record of its fields plus ok, the
\* value returned by the last call, and inside, whether every byte stored so
\* far was stored at an index below cap.
CobsBegin(output, outputCapacity) ==
    LET e == [out |-> output, cap |-> outputCapacity, codeIndex |-> 0,
              writeIndex |-> 1, code |-> 1, ok |-> TRUE, inside |-> TRUE]
    IN  IF outputCapacity = 0
        THEN [e EXCEPT !.ok = FALSE]
        ELSE [e EXCEPT !.out[1] = 0]

\* CobsPut that stores a zero byte as it stores any other byte.
CobsPut_zeroThrough(e, b) ==
    IF e.writeIndex >= e.cap
    THEN [e EXCEPT !.ok = FALSE]
    ELSE LET e1 == [e EXCEPT !.out[e.writeIndex + 1] = b,
                             !.inside = @ /\ e.writeIndex < e.cap,
                             !.writeIndex = @ + 1,
                             !.code = @ + 1]
         IN  IF e1.code = 255
             THEN LET e2 == [e1 EXCEPT !.out[e1.codeIndex + 1] = e1.code,
                                       !.inside = @ /\ e1.codeIndex < e1.cap,
                                       !.codeIndex = e1.writeIndex]
                  IN  IF e2.writeIndex >= e2.cap
                      THEN [e2 EXCEPT !.ok = FALSE]
                      ELSE [e2 EXCEPT !.writeIndex = @ + 1, !.code = 1,
                                      !.ok = TRUE]
             ELSE [e1 EXCEPT !.ok = TRUE]

\* CobsPut that finds the output full one byte late.
CobsPut_fullOneLate(e, b) ==
    IF b = 0
    THEN LET e1 == [e EXCEPT !.out[e.codeIndex + 1] = e.code,
                             !.inside = @ /\ e.codeIndex < e.cap,
                             !.codeIndex = e.writeIndex]
         IN  IF e1.writeIndex > e1.cap
             THEN [e1 EXCEPT !.ok = FALSE]
             ELSE [e1 EXCEPT !.writeIndex = @ + 1, !.code = 1, !.ok = TRUE]
    ELSE IF e.writeIndex > e.cap
    THEN [e EXCEPT !.ok = FALSE]
    ELSE LET e1 == [e EXCEPT !.out[e.writeIndex + 1] = b,
                             !.inside = @ /\ e.writeIndex < e.cap,
                             !.writeIndex = @ + 1,
                             !.code = @ + 1]
         IN  IF e1.code = 255
             THEN LET e2 == [e1 EXCEPT !.out[e1.codeIndex + 1] = e1.code,
                                       !.inside = @ /\ e1.codeIndex < e1.cap,
                                       !.codeIndex = e1.writeIndex]
                  IN  IF e2.writeIndex > e2.cap
                      THEN [e2 EXCEPT !.ok = FALSE]
                      ELSE [e2 EXCEPT !.writeIndex = @ + 1, !.code = 1,
                                      !.ok = TRUE]
             ELSE [e1 EXCEPT !.ok = TRUE]

\* CobsEncoder::put.
CobsPut(e, b) ==
    IF b = 0
    THEN LET e1 == [e EXCEPT !.out[e.codeIndex + 1] = e.code,
                             !.inside = @ /\ e.codeIndex < e.cap,
                             !.codeIndex = e.writeIndex]
         IN  IF e1.writeIndex >= e1.cap
             THEN [e1 EXCEPT !.ok = FALSE]
             ELSE [e1 EXCEPT !.writeIndex = @ + 1, !.code = 1, !.ok = TRUE]
    ELSE IF e.writeIndex >= e.cap
    THEN [e EXCEPT !.ok = FALSE]
    ELSE LET e1 == [e EXCEPT !.out[e.writeIndex + 1] = b,
                             !.inside = @ /\ e.writeIndex < e.cap,
                             !.writeIndex = @ + 1,
                             !.code = @ + 1]
         IN  IF e1.code = 255
             THEN LET e2 == [e1 EXCEPT !.out[e1.codeIndex + 1] = e1.code,
                                       !.inside = @ /\ e1.codeIndex < e1.cap,
                                       !.codeIndex = e1.writeIndex]
                  IN  IF e2.writeIndex >= e2.cap
                      THEN [e2 EXCEPT !.ok = FALSE]
                      ELSE [e2 EXCEPT !.writeIndex = @ + 1, !.code = 1,
                                      !.ok = TRUE]
             ELSE [e1 EXCEPT !.ok = TRUE]

\* CobsEnd that marks the encoder done and leaves the last code byte as it
\* is.
CobsEnd_unpatched(e) == [e EXCEPT !.ok = TRUE]

\* CobsEncoder::end: the encoder with the final code stored; the encoded
\* length is its writeIndex.
CobsEnd(e) ==
    [e EXCEPT !.out[e.codeIndex + 1] = e.code,
              !.inside = @ /\ e.codeIndex < e.cap,
              !.ok = TRUE]

\* for (i = from; i < to; ++i) if (!enc.put(input[i])) return false;
RECURSIVE CobsPutLoop(_, _, _, _)
CobsPutLoop(e, input, i, length) ==
    IF ~e.ok \/ i >= length THEN e
    ELSE IF length - i = 1 THEN CobsPut(e, input[i + 1])
    ELSE LET mid == i + (length - i) \div 2
         IN  CobsPutLoop(CobsPutLoop(e, input, i, mid), input, mid, length)

\* CobsEncodeResult that counts a byte after the last one written.
CobsEncodeResult_countsNext(e, outputLength) ==
    IF ~e.ok
    THEN [ok |-> FALSE, out |-> e.out, length |-> outputLength,
          inside |-> e.inside]
    ELSE [ok |-> TRUE, out |-> CobsEnd(e).out, length |-> e.writeIndex + 1,
          inside |-> CobsEnd(e).inside]

\* The end of cobsEncode2, e being the encoder after the two loops: return
\* false if a call failed, else enc.end(outputLength).  [ok, out, length,
\* inside]; on failure length is the caller's value, which the code leaves
\* alone.
CobsEncodeResult(e, outputLength) ==
    IF ~e.ok
    THEN [ok |-> FALSE, out |-> e.out, length |-> outputLength,
          inside |-> e.inside]
    ELSE [ok |-> TRUE, out |-> CobsEnd(e).out, length |-> e.writeIndex,
          inside |-> CobsEnd(e).inside]

\* cobsEncode2 on non-null inputs.  A failed begin or put ends the loops
\* that follow it at once.
cobsEncode2(inputA, inputALength, inputB, inputBLength, output, outputCapacity, outputLength) ==
    CobsEncodeResult(
        CobsPutLoop(CobsPutLoop(CobsBegin(output, outputCapacity),
                                inputA, 0, inputALength),
                    inputB, 0, inputBLength),
        outputLength)

\* cobsEncode: cobsEncode2 with no second input.
cobsEncode(input, inputLength, output, outputCapacity, outputLength) ==
    cobsEncode2(input, inputLength, << >>, 0, output, outputCapacity,
                outputLength)

\* The inner loop of cobsDecodeInPlace, for (i = 1; i < code; ++i): n
\* iterations left.  d is [ok, buf, r, w, writes, below]: the buffer, the
\* read and write indexes, the number of bytes stored so far and whether each
\* of them was stored at an index below the read index of that moment.
RECURSIVE CobsCopyLoop(_, _, _)
CobsCopyLoop(d, n, encodedLength) ==
    IF ~d.ok \/ n = 0 THEN d
    ELSE IF n = 1
    THEN IF d.r >= encodedLength
         THEN [d EXCEPT !.ok = FALSE]
         ELSE [d EXCEPT !.buf[d.w + 1] = d.buf[d.r + 1],
                        !.w = @ + 1, !.r = @ + 1,
                        !.writes = @ + 1, !.below = @ /\ d.w < d.r]
    ELSE CobsCopyLoop(CobsCopyLoop(d, n \div 2, encodedLength),
                      n - n \div 2, encodedLength)

\* The rest of one iteration of the outer loop, d being the decoder after
\* the inner loop: emit the group's zero unless the code is 0xFF or the input
\* is used up, and go round again.
RECURSIVE CobsDecodeLoop(_, _)
\* CobsGroupEnd that emits the group's zero after a full block as well.
CobsGroupEnd_zeroAfterFull(d, code, encodedLength) ==
    IF ~d.ok THEN d
    ELSE IF d.r < encodedLength
    THEN CobsDecodeLoop([d EXCEPT !.buf[d.w + 1] = 0, !.w = @ + 1,
                                  !.writes = @ + 1, !.below = @ /\ d.w < d.r],
                        encodedLength)
    ELSE CobsDecodeLoop(d, encodedLength)

CobsGroupEnd(d, code, encodedLength) ==
    IF ~d.ok THEN d
    ELSE IF code # 255 /\ d.r < encodedLength
    THEN CobsDecodeLoop([d EXCEPT !.buf[d.w + 1] = 0, !.w = @ + 1,
                                  !.writes = @ + 1, !.below = @ /\ d.w < d.r],
                        encodedLength)
    ELSE CobsDecodeLoop(d, encodedLength)

\* The outer loop, while (readIndex < encodedLength): one code group per
\* iteration.
CobsDecodeLoop(d, encodedLength) ==
    IF ~d.ok \/ d.r >= encodedLength THEN d
    ELSE IF d.buf[d.r + 1] = 0 THEN [d EXCEPT !.r = @ + 1, !.ok = FALSE]
    ELSE CobsGroupEnd(CobsCopyLoop([d EXCEPT !.r = @ + 1],
                                   d.buf[d.r + 1] - 1, encodedLength),
                      d.buf[d.r + 1], encodedLength)

\* CobsDecodeResult that gives the number of bytes read as the decoded
\* length.
CobsDecodeResult_readLength(d) ==
    [ok |-> d.ok, buf |-> d.buf, length |-> IF d.ok THEN d.r ELSE 0,
     writes |-> d.writes, below |-> d.below]

\* What cobsDecodeInPlace returns, d being the decoder after the outer loop.
CobsDecodeResult(d) ==
    [ok |-> d.ok, buf |-> d.buf, length |-> IF d.ok THEN d.w ELSE 0,
     writes |-> d.writes, below |-> d.below]

\* cobsDecodeInPlace that leaves the first byte of the buffer in place and
\* stores the decoded bytes after it.
cobsDecodeInPlace_keepsFirst(buffer, encodedLength) ==
    CobsDecodeResult(
        CobsDecodeLoop([ok |-> TRUE, buf |-> buffer, r |-> 0, w |-> 1,
                        writes |-> 0, below |-> TRUE],
                       encodedLength))

\* cobsDecodeInPlace: [ok, buf, length, writes, below]; length is the decoded
\* length on success and is not set on failure.
cobsDecodeInPlace(buffer, encodedLength) ==
    CobsDecodeResult(
        CobsDecodeLoop([ok |-> TRUE, buf |-> buffer, r |-> 0, w |-> 0,
                        writes |-> 0, below |-> TRUE],
                       encodedLength))

\* ------------------------------------------------------- buffers

\* A buffer of n bytes, all b (a tuple, built by halves).
RECURSIVE Fill(_, _)
Fill(n, b) ==
    IF n = 0 THEN << >>
    ELSE IF n = 1 THEN << b >>
    ELSE Fill(n \div 2, b) \o Fill(n - n \div 2, b)

\* bufferSpan{data, length}: null says data is a null pointer; data is the
\* storage the pointer refers to.
Span(data, length) == [null |-> FALSE, data |-> data, length |-> length]

NullSpan(length) == [null |-> TRUE, data |-> << >>, length |-> length]

\* The first length bytes of a span's storage.
SpanBytes(span) == SubSeq(span.data, 1, span.length)

Last(s) == s[Len(s)]

\* ----------------------------------- marshalling.hpp: Writer and Reader
\* A uint64_t is four 16-bit parts, the most significant first, and an
\* int64_t likewise with a signed first part; a uint32_t is two parts; an
\* int32_t and everything narrower is an integer; a bool is a Boolean.

read_u64_be(p, at) ==
    << read_u16_be(p, at), read_u16_be(p, at + 2), read_u16_be(p, at + 4),
       read_u16_be(p, at + 6) >>

write_u64_be(v) ==
    write_u16_be(v[1]) \o write_u16_be(v[2]) \o write_u16_be(v[3])
        \o write_u16_be(v[4])

\* sizeof(T) of the scalar types.
SizeOf(type) ==
    CASE type \in { "u8", "i8", "bool" } -> 1
      [] type \in { "u16", "i16" } -> 2
      [] type \in { "u32", "i32" } -> 4
      [] type \in { "u64", "i64" } -> 8

\* What the write overloads hand to the unsigned one: static_cast to the
\* unsigned type of the same width, and value ? 1 : 0 for a bool.
ToUnsigned(type, value) ==
    CASE type = "i8" -> value % 256
      [] type = "i16" -> value % 65536
      [] type = "i32" -> << (value \div 65536) % 65536, value % 65536 >>
      [] type = "i64" -> [value EXCEPT ![1] = @ % 65536]
      [] type = "bool" -> IF value THEN 1 ELSE 0
      [] OTHER -> value

\* bit_cast that leaves the unsigned value as it is.
bit_cast_unsigned(type, u) == u

\* detail::bit_cast from the unsigned type to T, as the read overloads use
\* it: the two's complement value of the bits.
bit_cast(type, u) ==
    CASE type = "i8" -> IF u >= 128 THEN u - 256 ELSE u
      [] type = "i16" -> IF u >= 32768 THEN u - 65536 ELSE u
      [] type = "i32" ->
            (IF u[1] >= 32768 THEN u[1] - 65536 ELSE u[1]) * 65536 + u[2]
      [] type = "i64" ->
            [u EXCEPT ![1] = IF @ >= 32768 THEN @ - 65536 ELSE @]
      [] OTHER -> u

\* The bytes the unsigned write overloads store: write_u16_be, write_u32_be,
\* write_u64_be, or the byte itself.
BytesOf(type, u) ==
    CASE SizeOf(type) = 1 -> << u >>
      [] SizeOf(type) = 2 -> write_u16_be(u)
      [] SizeOf(type) = 4 -> write_u32_be(u)
      [] SizeOf(type) = 8 -> write_u64_be(u)

\* The unsigned value the read overloads take from data at index at.
UnsignedAt(type, data, at) ==
    CASE SizeOf(type) = 1 -> data[at + 1]
      [] SizeOf(type) = 2 -> read_u16_be(data, at)
      [] SizeOf(type) = 4 -> read_u32_be(data, at)
      [] SizeOf(type) = 8 -> read_u64_be(data, at)

\* data with bytes stored from index at on.
Stored(data, at, bytes) ==
    SubSeq(data, 1, at) \o bytes
        \o SubSeq(data, at + Len(bytes) + 1, Len(data))

\* Writer::Writer.  ok is the value the last write returned.
NewWriter(out) == [out |-> out, index |-> 0, ok |-> TRUE]

\* Writer::ensure.
WriterEnsure(w, n) == ~w.out.null /\ w.index + n <= w.out.length

\* Writer::write(T value) for the scalar types.
WriterWrite(w, type, value) ==
    IF ~WriterEnsure(w, SizeOf(type))
    THEN [w EXCEPT !.ok = FALSE]
    ELSE [w EXCEPT !.out.data = Stored(@, w.index,
                                       BytesOf(type, ToUnsigned(type, value))),
                   !.index = @ + SizeOf(type),
                   !.ok = TRUE]

\* Writer::writeArray on a non-null array: the loop from element i on.
RECURSIVE writeArray(_, _, _, _)
writeArray(w, type, values, i) ==
    IF i >= Len(values) THEN [w EXCEPT !.ok = TRUE]
    ELSE IF ~WriterWrite(w, type, values[i + 1]).ok
    THEN WriterWrite(w, type, values[i + 1])
    ELSE writeArray(WriterWrite(w, type, values[i + 1]), type, values, i + 1)

\* What a variable holds that no read has set.
Unset == << >>

\* Reader::Reader.  ok is the value the last read returned and value what it
\* left in its out parameter.
NewReader(in) == [in |-> in, index |-> 0, ok |-> TRUE, value |-> Unset]

\* Reader::ensure.
ReaderEnsure(r, n) ==
    /\ ~(r.in.null /\ r.in.length # 0)
    /\ r.index + n <= r.in.length

\* ReaderRead that looks at a bool's byte before it consumes it.
ReaderRead_peeksBool(r, type) ==
    IF ~ReaderEnsure(r, SizeOf(type))
    THEN [r EXCEPT !.ok = FALSE, !.value = Unset]
    ELSE IF type = "bool"
    THEN IF r.in.data[r.index + 1] > 1
         THEN [r EXCEPT !.ok = FALSE, !.value = Unset]
         ELSE [r EXCEPT !.index = @ + 1, !.ok = TRUE,
                        !.value = (r.in.data[r.index + 1] = 1)]
    ELSE [r EXCEPT !.index = @ + SizeOf(type),
                   !.ok = TRUE,
                   !.value = bit_cast(type, UnsignedAt(type, r.in.data,
                                                       r.index))]

\* Reader::read(T &out) for the scalar types.  A bool's byte is consumed
\* before it is looked at.
ReaderRead(r, type) ==
    IF ~ReaderEnsure(r, SizeOf(type))
    THEN [r EXCEPT !.ok = FALSE, !.value = Unset]
    ELSE IF type = "bool"
    THEN IF r.in.data[r.index + 1] > 1
         THEN [r EXCEPT !.index = @ + 1, !.ok = FALSE, !.value = Unset]
         ELSE [r EXCEPT !.index = @ + 1, !.ok = TRUE,
                        !.value = (r.in.data[r.index + 1] = 1)]
    ELSE [r EXCEPT !.index = @ + SizeOf(type),
                   !.ok = TRUE,
                   !.value = bit_cast(type, UnsignedAt(type, r.in.data,
                                                       r.index))]

\* Reader::readArray into a non-null array: the loop from element i on,
\* values being the elements read so far.
RECURSIVE readArray(_, _, _, _, _)
readArray(r, type, count, i, values) ==
    IF i >= count THEN [r EXCEPT !.ok = TRUE, !.value = values]
    ELSE IF ~ReaderRead(r, type).ok
    THEN [ReaderRead(r, type) EXCEPT !.value = values]
    ELSE readArray(ReaderRead(r, type), type, count, i + 1,
                   Append(values, ReaderRead(r, type).value))

\* ------------------------------------------------------- framer.hpp

\* The end of createPacket, enc being what cobsEncode2 returned: append the
\* delimiter if there is room for it.
PacketResult(enc, packet) ==
    IF ~enc.ok \/ enc.length >= packet.length
    THEN [err |-> "InvalidParameter", data |-> enc.out,
          length |-> packet.length]
    ELSE [err |-> "OK", data |-> [enc.out EXCEPT ![enc.length + 1] = 0],
          length |-> enc.length + 1]

\* Framer::createPacket: [err, data, length], the packet span afterwards and
\* the value returned.
createPacket(frame, packet) ==
    IF frame.null \/ packet.null \/ packet.length < 2
    THEN [err |-> "InvalidParameter", data |-> packet.data,
          length |-> packet.length]
    ELSE PacketResult(
            cobsEncode2(frame.data, frame.length,
                        write_u32_be(crc32_iso_hdlc(frame.data, frame.length)),
                        4, packet.data, packet.length, 0),
            packet)

\* Framer::emitPacket: the callback's result, or OK when none is registered.
emitPacket(thunk, cbResult) == IF thunk THEN cbResult ELSE "OK"

\* What processByte yields: rxBuffer_ and rxIndex_ afterwards; emit says that
\* emitPacket(bufferSpan{rxBuffer_, frameLength}) is called and its result
\* returned, and otherwise err is returned.
Processed(buf, idx, err, emit, frameLength) ==
    [buf |-> buf, idx |-> idx, err |-> err, emit |-> emit,
     frameLength |-> frameLength]

\* Delimited that hands the frame to the callback without comparing the CRCs.
Delimited_noCrcCheck(dec) ==
    IF ~dec.ok THEN Processed(dec.buf, 0, "CobsDecodeFailed", FALSE, 0)
    ELSE IF dec.length < 4
    THEN Processed(dec.buf, 0, "FrameHeaderSize", FALSE, 0)
    ELSE Processed(dec.buf, 0, "OK", TRUE, dec.length - 4)

\* processByte on a delimiter once rxIndex_ is reset, dec being what
\* cobsDecodeInPlace returned.
Delimited(dec) ==
    IF ~dec.ok THEN Processed(dec.buf, 0, "CobsDecodeFailed", FALSE, 0)
    ELSE IF dec.length < 4
    THEN Processed(dec.buf, 0, "FrameHeaderSize", FALSE, 0)
    ELSE IF read_u32_be(dec.buf, dec.length - 4)
                # crc32_iso_hdlc(dec.buf, dec.length - 4)
    THEN Processed(dec.buf, 0, "CrcMismatch", FALSE, 0)
    ELSE Processed(dec.buf, 0, "OK", TRUE, dec.length - 4)

\* processByte that leaves rxIndex_ alone when the buffer overflows.
processByte_overflowKeepsIndex(rxBuf, rxIdx, byte, MaxPacketSize) ==
    IF byte = 0
    THEN IF rxIdx = 0
         THEN Processed(rxBuf, rxIdx, "OK", FALSE, 0)
         ELSE Delimited(cobsDecodeInPlace(rxBuf, rxIdx))
    ELSE IF rxIdx >= MaxPacketSize
    THEN Processed(rxBuf, rxIdx, "FrameTooLarge", FALSE, 0)
    ELSE Processed([rxBuf EXCEPT ![rxIdx + 1] = byte], rxIdx + 1, "OK",
                   FALSE, 0)

\* processByte that finds the buffer full one byte early.
processByte_fullOneEarly(rxBuf, rxIdx, byte, MaxPacketSize) ==
    IF byte = 0
    THEN IF rxIdx = 0
         THEN Processed(rxBuf, rxIdx, "OK", FALSE, 0)
         ELSE Delimited(cobsDecodeInPlace(rxBuf, rxIdx))
    ELSE IF rxIdx + 1 >= MaxPacketSize
    THEN Processed(rxBuf, 0, "FrameTooLarge", FALSE, 0)
    ELSE Processed([rxBuf EXCEPT ![rxIdx + 1] = byte], rxIdx + 1, "OK",
                   FALSE, 0)

\* processByte that takes the buffer for full one byte too late: the byte
\* that does not fit is stored past the end of rxBuffer_.
processByte_fullOneLate(rxBuf, rxIdx, byte, MaxPacketSize) ==
    IF byte = 0
    THEN IF rxIdx = 0
         THEN Processed(rxBuf, rxIdx, "OK", FALSE, 0)
         ELSE Delimited(cobsDecodeInPlace(rxBuf, IF rxIdx > MaxPacketSize
                                                 THEN MaxPacketSize
                                                 ELSE rxIdx))
    ELSE IF rxIdx > MaxPacketSize
    THEN Processed(rxBuf, 0, "FrameTooLarge", FALSE, 0)
    ELSE IF rxIdx = MaxPacketSize
    THEN Processed(rxBuf, rxIdx + 1, "OK", FALSE, 0)
    ELSE Processed([rxBuf EXCEPT ![rxIdx + 1] = byte], rxIdx + 1, "OK",
                   FALSE, 0)

\* processByte that decodes on every delimiter, an idle framer's too.
processByte_noIdleCheck(rxBuf, rxIdx, byte, MaxPacketSize) ==
    IF byte = 0
    THEN Delimited(cobsDecodeInPlace(rxBuf, rxIdx))
    ELSE IF rxIdx >= MaxPacketSize
    THEN Processed(rxBuf, 0, "FrameTooLarge", FALSE, 0)
    ELSE Processed([rxBuf EXCEPT ![rxIdx + 1] = byte], rxIdx + 1, "OK",
                   FALSE, 0)

\* processByte that resets rxIndex_ on a delimiter only when the packet was
\* good.
processByte_keepsBadPacket(rxBuf, rxIdx, byte, MaxPacketSize) ==
    IF byte = 0
    THEN IF rxIdx = 0
         THEN Processed(rxBuf, rxIdx, "OK", FALSE, 0)
         ELSE IF Delimited(cobsDecodeInPlace(rxBuf, rxIdx)).emit
         THEN Delimited(cobsDecodeInPlace(rxBuf, rxIdx))
         ELSE [Delimited(cobsDecodeInPlace(rxBuf, rxIdx)) EXCEPT
                    !.buf = rxBuf, !.idx = rxIdx]
    ELSE IF rxIdx >= MaxPacketSize
    THEN Processed(rxBuf, 0, "FrameTooLarge", FALSE, 0)
    ELSE Processed([rxBuf EXCEPT ![rxIdx + 1] = byte], rxIdx + 1, "OK",
                   FALSE, 0)

\* Framer::processByte up to the call of emitPacket.
processByte(rxBuf, rxIdx, byte, MaxPacketSize) ==
    IF byte = 0
    THEN IF rxIdx = 0
         THEN Processed(rxBuf, rxIdx, "OK", FALSE, 0)
         ELSE Delimited(cobsDecodeInPlace(rxBuf, rxIdx))
    ELSE IF rxIdx >= MaxPacketSize
    THEN Processed(rxBuf, 0, "FrameTooLarge", FALSE, 0)
    ELSE Processed([rxBuf EXCEPT ![rxIdx + 1] = byte], rxIdx + 1, "OK",
                   FALSE, 0)

\* ================================================================ Router
\* router.hpp.  handlers_ is a tuple of MaxHandlers slots; a slot is
\* [used, msgId, cbObj, cbThunk, ret]: cbThunk is "raw" for memberThunk and
\* "msg" for memberThunkMsg, cbObj stands for the object and the method
\* registered, and ret is what that method returns.  An invocation yields
\* [err, calls, decodes]: the value returned, the handlers invoked with what
\* they were given, and the number of calls of Msg::decode.

kHeaderSize == 8

\* Router::Router: no slot in use.
FreeSlot == [used |-> FALSE, msgId |-> 0, cbObj |-> "", cbThunk |-> "none",
             ret |-> "OK"]
NoHandlers == [i \in 1 .. MaxHandlers |-> FreeSlot]

\* The payload copied into the frame, for (i = 0; i < payload.length; ++i).
RECURSIVE CopyPayload(_, _, _, _)
CopyPayload(data, payload, i, length) ==
    IF i >= length THEN data
    ELSE IF length - i = 1
    THEN [data EXCEPT ![kHeaderSize + i + 1] = payload[i + 1]]
    ELSE CHOOSE r \in
            { CopyPayload(d, payload, i + (length - i) \div 2, length) :
                d \in { CopyPayload(data, payload, i,
                                    i + (length - i) \div 2) } } : TRUE

\* The header written by buildFrame into data.
WriteHeader(data, version, msgId, msgHash, payloadLength) ==
    [data EXCEPT ![1] = version,
                 ![2] = msgId,
                 ![3] = write_u32_be(msgHash)[1],
                 ![4] = write_u32_be(msgHash)[2],
                 ![5] = write_u32_be(msgHash)[3],
                 ![6] = write_u32_be(msgHash)[4],
                 ![7] = write_u16_be(payloadLength % 65536)[1],
                 ![8] = write_u16_be(payloadLength % 65536)[2]]

\* buildFrame whose copying loop stops one byte early.
buildFrame_shortCopy(version, msgId, msgHash, payload, outFrame) ==
    IF outFrame.null
        \/ (payload.null /\ payload.length # 0)
        \/ payload.length > 65535
        \/ outFrame.length < kHeaderSize + payload.length
    THEN [err |-> "InvalidParameter", data |-> outFrame.data,
          length |-> outFrame.length]
    ELSE [err |-> "OK",
          data |-> CopyPayload(WriteHeader(outFrame.data, version, msgId,
                                           msgHash, payload.length),
                               payload.data, 0, payload.length - 1),
          length |-> kHeaderSize + payload.length]

\* buildFrame that writes the header before it looks at the capacity.
buildFrame_headerFirst(version, msgId, msgHash, payload, outFrame) ==
    IF outFrame.null
        \/ (payload.null /\ payload.length # 0)
        \/ payload.length > 65535
    THEN [err |-> "InvalidParameter", data |-> outFrame.data,
          length |-> outFrame.length]
    ELSE IF outFrame.length < kHeaderSize + payload.length
    THEN [err |-> "InvalidParameter",
          data |-> IF Len(outFrame.data) < kHeaderSize THEN outFrame.data
                   ELSE WriteHeader(outFrame.data, version, msgId, msgHash,
                                    payload.length),
          length |-> outFrame.length]
    ELSE [err |-> "OK",
          data |-> CopyPayload(WriteHeader(outFrame.data, version, msgId,
                                           msgHash, payload.length),
                               payload.data, 0, payload.length),
          length |-> kHeaderSize + payload.length]

\* Router::buildFrame: [err, data, length], the outFrame span afterwards and
\* the value returned.  version is expectedVersion_.
buildFrame(version, msgId, msgHash, payload, outFrame) ==
    IF outFrame.null
        \/ (payload.null /\ payload.length # 0)
        \/ payload.length > 65535
        \/ outFrame.length < kHeaderSize + payload.length
    THEN [err |-> "InvalidParameter", data |-> outFrame.data,
          length |-> outFrame.length]
    ELSE [err |-> "OK",
          data |-> CopyPayload(WriteHeader(outFrame.data, version, msgId,
                                           msgHash, payload.length),
                               payload.data, 0, payload.length),
          length |-> kHeaderSize + payload.length]

\* The first slot from number i on that is in use for msgId, or 0.
RECURSIVE FindUsed(_, _, _)
FindUsed(table, msgId, i) ==
    IF i > Len(table) THEN 0
    ELSE IF table[i].used /\ table[i].msgId = msgId THEN i
    ELSE FindUsed(table, msgId, i + 1)

\* The first slot from number i on that is free, or 0.
RECURSIVE FindFree(_, _)
FindFree(table, i) ==
    IF i > Len(table) THEN 0
    ELSE IF ~table[i].used THEN i
    ELSE FindFree(table, i + 1)

\* registerHandler without its first pass: a free slot is taken even when a
\* slot is in use for msgId.
registerHandler_insertOnly(table, msgId, obj, thunk, ret) ==
    IF FindFree(table, 1) # 0
    THEN [err |-> "OK",
          table |-> [table EXCEPT ![FindFree(table, 1)] =
                        [used |-> TRUE, msgId |-> msgId, cbObj |-> obj,
                         cbThunk |-> thunk, ret |-> ret]]]
    ELSE [err |-> "InvalidParameter", table |-> table]

\* registerHandler whose first pass returns OK and leaves the slot as it is.
registerHandler_keepsFirst(table, msgId, obj, thunk, ret) ==
    IF FindUsed(table, msgId, 1) # 0
    THEN [err |-> "OK", table |-> table]
    ELSE IF FindFree(table, 1) # 0
    THEN [err |-> "OK",
          table |-> [table EXCEPT ![FindFree(table, 1)] =
                        [used |-> TRUE, msgId |-> msgId, cbObj |-> obj,
                         cbThunk |-> thunk, ret |-> ret]]]
    ELSE [err |-> "InvalidParameter", table |-> table]

\* registerHandler that gives the first slot to msgId when the table is
\* full.
registerHandler_evicts(table, msgId, obj, thunk, ret) ==
    IF FindUsed(table, msgId, 1) # 0
    THEN [err |-> "OK",
          table |-> [table EXCEPT ![FindUsed(table, msgId, 1)] =
                        [@ EXCEPT !.cbObj = obj, !.cbThunk = thunk,
                                  !.ret = ret]]]
    ELSE IF FindFree(table, 1) # 0
    THEN [err |-> "OK",
          table |-> [table EXCEPT ![FindFree(table, 1)] =
                        [used |-> TRUE, msgId |-> msgId, cbObj |-> obj,
                         cbThunk |-> thunk, ret |-> ret]]]
    ELSE [err |-> "InvalidParameter",
          table |-> [table EXCEPT ![1] =
                        [used |-> TRUE, msgId |-> msgId, cbObj |-> obj,
                         cbThunk |-> thunk, ret |-> ret]]]

\* Router::registerHandler, both overloads: [err, table].  The slot in use
\* for msgId is updated, else the first free slot is taken, else the table
\* is full.
registerHandler(table, msgId, obj, thunk, ret) ==
    IF FindUsed(table, msgId, 1) # 0
    THEN [err |-> "OK",
          table |-> [table EXCEPT ![FindUsed(table, msgId, 1)] =
                        [@ EXCEPT !.cbObj = obj, !.cbThunk = thunk,
                                  !.ret = ret]]]
    ELSE IF FindFree(table, 1) # 0
    THEN [err |-> "OK",
          table |-> [table EXCEPT ![FindFree(table, 1)] =
                        [used |-> TRUE, msgId |-> msgId, cbObj |-> obj,
                         cbThunk |-> thunk, ret |-> ret]]]
    ELSE [err |-> "InvalidParameter", table |-> table]

\* What an invocation yields when no handler is invoked.
Returned(err) == [err |-> err, calls |-> << >>, decodes |-> 0]

\* Router::memberThunk: the raw handler is given the payload and the hash.
memberThunk(h, payload, msgHash) ==
    [err |-> h.ret,
     calls |-> << [cbObj |-> h.cbObj, cbThunk |-> "raw", payload |-> payload,
                   msgHash |-> msgHash] >>,
     decodes |-> 0]

\* TypedMsg of tests/test_router.cpp: kMsgHash is 0xAA55AA55, and decode
\* wants four bytes and reads a big-endian uint32_t: [ok, val].
kMsgHash == << 43605, 43605 >>
decode(payload) ==
    IF Len(payload) < 4 THEN [ok |-> FALSE, val |-> << 0, 0 >>]
    ELSE [ok |-> TRUE, val |-> read_u32_be(payload, 0)]

\* memberThunkMsg that does not compare the hashes.
memberThunkMsg_noHashCheck(h, payload, msgHash) ==
    IF ~decode(payload).ok
    THEN [err |-> "InvalidParameter", calls |-> << >>, decodes |-> 1]
    ELSE [err |-> h.ret,
          calls |-> << [cbObj |-> h.cbObj, cbThunk |-> "msg",
                        msg |-> decode(payload).val] >>,
          decodes |-> 1]

\* Router::memberThunkMsg: the typed handler is given the decoded message.
memberThunkMsg(h, payload, msgHash) ==
    IF msgHash # kMsgHash
    THEN [err |-> "MsgVersionMismatch", calls |-> << >>, decodes |-> 0]
    ELSE IF ~decode(payload).ok
    THEN [err |-> "InvalidParameter", calls |-> << >>, decodes |-> 1]
    ELSE [err |-> h.ret,
          calls |-> << [cbObj |-> h.cbObj, cbThunk |-> "msg",
                        msg |-> decode(payload).val] >>,
          decodes |-> 1]

\* The body of onPacket's loop for a slot that matches; slot 0 is no slot.
Invoke(table, slot, payload, msgHash) ==
    IF slot = 0 THEN Returned("MsgIdUnknown")
    ELSE IF table[slot].cbThunk = "raw"
    THEN memberThunk(table[slot], payload, msgHash)
    ELSE IF table[slot].cbThunk = "msg"
    THEN memberThunkMsg(table[slot], payload, msgHash)
    ELSE Returned("OK")

\* onPacket that lets a frame through when it is longer than its header
\* says.
onPacket_lengthAtLeast(table, version, frame) ==
    IF frame.null THEN Returned("InvalidParameter")
    ELSE IF frame.length < kHeaderSize THEN Returned("FrameHeaderSize")
    ELSE IF frame.data[1] # version THEN Returned("MsgVersionMismatch")
    ELSE IF frame.length < kHeaderSize + read_u16_be(frame.data, 6)
    THEN Returned("MsgLengthMismatch")
    ELSE Invoke(table, FindUsed(table, frame.data[2], 1),
                SubSeq(frame.data, kHeaderSize + 1,
                       kHeaderSize + read_u16_be(frame.data, 6)),
                read_u32_be(frame.data, 2))

\* onPacket that does not look at the version of the frame.
onPacket_noVersionCheck(table, version, frame) ==
    IF frame.null THEN Returned("InvalidParameter")
    ELSE IF frame.length < kHeaderSize THEN Returned("FrameHeaderSize")
    ELSE IF frame.length # kHeaderSize + read_u16_be(frame.data, 6)
    THEN Returned("MsgLengthMismatch")
    ELSE Invoke(table, FindUsed(table, frame.data[2], 1),
                SubSeq(frame.data, kHeaderSize + 1,
                       kHeaderSize + read_u16_be(frame.data, 6)),
                read_u32_be(frame.data, 2))

\* onPacket that compares the length with the header before it looks at the
\* version.
onPacket_lengthBeforeVersion(table, version, frame) ==
    IF frame.null THEN Returned("InvalidParameter")
    ELSE IF frame.length < kHeaderSize THEN Returned("FrameHeaderSize")
    ELSE IF frame.length # kHeaderSize + read_u16_be(frame.data, 6)
    THEN Returned("MsgLengthMismatch")
    ELSE IF frame.data[1] # version THEN Returned("MsgVersionMismatch")
    ELSE Invoke(table, FindUsed(table, frame.data[2], 1),
                SubSeq(frame.data, kHeaderSize + 1,
                       kHeaderSize + read_u16_be(frame.data, 6)),
                read_u32_be(frame.data, 2))

\* Router::onPacket on the handler table and expectedVersion_.
onPacket(table, version, frame) ==
    IF frame.null THEN Returned("InvalidParameter")
    ELSE IF frame.length < kHeaderSize THEN Returned("FrameHeaderSize")
    ELSE IF frame.data[1] # version THEN Returned("MsgVersionMismatch")
    ELSE IF frame.length # kHeaderSize + read_u16_be(frame.data, 6)
    THEN Returned("MsgLengthMismatch")
    ELSE Invoke(table, FindUsed(table, frame.data[2], 1),
                SubSeq(frame.data, kHeaderSize + 1,
                       kHeaderSize + read_u16_be(frame.data, 6)),
                read_u32_be(frame.data, 2))

\* ================================================================== Node
\* node.hpp, with the transport of tests/test_node.cpp.  A Ring<Capacity> is
\* the sequence of the bytes it holds, oldest first.  A node is
\* [rxBuffer, rxIndex, handlers, expectedVersion, wired, txFrame, txPacket]:
\* framer_, router_, wired_ and the two scratch buffers.

\* push that puts the byte before the oldest one.
push_front(ring, b, Capacity) ==
    IF Len(ring) >= Capacity THEN [ok |-> FALSE, ring |-> ring]
    ELSE [ok |-> TRUE, ring |-> << b >> \o ring]

\* Ring::push: [ok, ring].
push(ring, b, Capacity) ==
    IF Len(ring) >= Capacity THEN [ok |-> FALSE, ring |-> ring]
    ELSE [ok |-> TRUE, ring |-> Append(ring, b)]

\* Endpoint::write: the bytes are pushed one by one and the first that does
\* not fit ends the call, the bytes before it staying in the ring.
RECURSIVE write(_, _, _, _, _)
write(ring, data, i, length, Capacity) ==
    IF i >= length THEN [ok |-> TRUE, ring |-> ring]
    ELSE IF ~push(ring, data[i + 1], Capacity).ok
    THEN [ok |-> FALSE, ring |-> ring]
    ELSE write(push(ring, data[i + 1], Capacity).ring, data, i + 1, length,
               Capacity)

\* What publish yields: the value returned, the scratch buffers and the ring
\* afterwards, the number of calls of transport_.write.
Published(err, txFrame, txPacket, ring, writes) ==
    [err |-> err, txFrame |-> txFrame, txPacket |-> txPacket, ring |-> ring,
     writes |-> writes]

\* publish that returns OK whatever transport_.write returned.
PublishWritten_ignoresWrite(built, pkt, w) ==
    Published("OK", built.data, pkt.data, w.ring, 1)

\* The end of publish, w being what transport_.write returned.
PublishWritten(built, pkt, w) ==
    Published(IF w.ok THEN "OK" ELSE "TransportError", built.data, pkt.data,
              w.ring, 1)

\* publish once createPacket has returned pkt.
PublishPacket(built, pkt, ring, Capacity) ==
    IF pkt.err # "OK" THEN Published(pkt.err, built.data, pkt.data, ring, 0)
    ELSE PublishWritten(built, pkt,
                        write(ring, pkt.data, 0, pkt.length, Capacity))

\* publish that hands the packet to the transport without its delimiter.
PublishFrame_noDelimiter(n, built, ring, Capacity) ==
    IF built.err # "OK"
    THEN Published(built.err, built.data, n.txPacket, ring, 0)
    ELSE PublishPacket(built,
                       [createPacket(Span(built.data, built.length),
                                     Span(n.txPacket, kMaxPacketSize))
                            EXCEPT !.length = @ - 1],
                       ring, Capacity)

\* publish once buildFrame has returned built.
PublishFrame(n, built, ring, Capacity) ==
    IF built.err # "OK"
    THEN Published(built.err, built.data, n.txPacket, ring, 0)
    ELSE PublishPacket(built,
                       createPacket(Span(built.data, built.length),
                                    Span(n.txPacket, kMaxPacketSize)),
                       ring, Capacity)

\* Node::publish(msgId, msgHash, payload) of node n, ring being the ring its
\* transport writes to.
publish(n, msgId, msgHash, payload, ring, Capacity) ==
    IF ~n.wired
    THEN Published("InvalidParameter", n.txFrame, n.txPacket, ring, 0)
    ELSE PublishFrame(n,
                      buildFrame(n.expectedVersion, msgId, msgHash, payload,
                                 Span(n.txFrame, kMaxFrameSize)),
                      ring, Capacity)

\* poll that does not count a byte whose error came from onPacket.
PollCounted_framerErrorsOnly(st, p, err, entries) ==
    [buf |-> p.buf,
     idx |-> p.idx,
     errors |-> IF err # "OK" /\ entries = << >> THEN st.errors + 1
                ELSE st.errors,
     results |-> Append(st.results, err),
     log |-> st.log \o entries]

\* The state of poll's loop is [buf, idx, errors, results, log]: the framer,
\* the error count, and for the caller what processByte returned for each
\* byte read and, for each frame the framer gave to onPacket, the frame, the
\* four bytes after it in rxBuffer_, what onPacket returned, the handlers it
\* invoked and the number of the byte read.
PollCounted(st, p, err, entries) ==
    [buf |-> p.buf,
     idx |-> p.idx,
     errors |-> IF err # "OK" THEN st.errors + 1 ELSE st.errors,
     results |-> Append(st.results, err),
     log |-> st.log \o entries]

\* The loop's state once onPacket has yielded r for the frame in p.
PollDispatched(st, p, r) ==
    PollCounted(st, p, r.err,
                << [frame |-> SubSeq(p.buf, 1, p.frameLength),
                    crc |-> SubSeq(p.buf, p.frameLength + 1,
                                   p.frameLength + 4),
                    err |-> r.err,
                    calls |-> r.calls,
                    at |-> Len(st.results) + 1] >>)

\* The loop's state once processByte has yielded p: the callback of the
\* framer is router_.onPacket.
PollProcessed(st, p, n) ==
    IF p.emit
    THEN PollDispatched(st, p,
                        onPacket(n.handlers, n.expectedVersion,
                                 Span(p.buf, p.frameLength)))
    ELSE PollCounted(st, p, p.err, << >>)

\* poll whose loop ends with the first byte processByte does not return OK
\* for.
RECURSIVE PollLoop_stopsOnError(_, _, _, _)
PollLoop_stopsOnError(st, n, ring, i) ==
    IF i >= Len(ring) \/ st.errors > 0 THEN st
    ELSE CHOOSE r \in
            { PollLoop_stopsOnError(s1, n, ring, i + 1) :
                s1 \in { PollProcessed(st,
                                       processByte(st.buf, st.idx, ring[i + 1],
                                                   kMaxPacketSize),
                                       n) } }
            : TRUE

\* while (transport_.read(byte)) on the bytes of the ring from number i on.
RECURSIVE PollLoop(_, _, _, _)
PollLoop(st, n, ring, i) ==
    IF i >= Len(ring) THEN st
    ELSE CHOOSE r \in
            { PollLoop(s1, n, ring, i + 1) :
                s1 \in { PollProcessed(st,
                                       processByte(st.buf, st.idx, ring[i + 1],
                                                   kMaxPacketSize),
                                       n) } }
            : TRUE

\* poll that starts with an idle framer, whatever the framer holds.
PollStart_idle(n) ==
    [buf |-> n.rxBuffer, idx |-> 0, errors |-> 0, results |-> << >>,
     log |-> << >>]

\* The loop's state before the first read.
PollStart(n) ==
    [buf |-> n.rxBuffer, idx |-> n.rxIndex, errors |-> 0, results |-> << >>,
     log |-> << >>]

\* Node::poll of node n, ring being the ring its transport reads from: the
\* loop's final state and the number of bytes read.
poll(n, ring) ==
    IF ~n.wired THEN [st |-> PollStart(n), reads |-> 0]
    ELSE [st |-> PollLoop(PollStart(n), n, ring, 0), reads |-> Len(ring)]

\* Node::Node(transport, expectedVersion): the router is wired to the
\* framer; the buffers hold what their storage held.
NewNode(version, storage) ==
    [rxBuffer |-> Fill(kMaxPacketSize, storage), rxIndex |-> 0,
     handlers |-> NoHandlers, expectedVersion |-> version, wired |-> TRUE,
     txFrame |-> Fill(kMaxFrameSize, storage),
     txPacket |-> Fill(kMaxPacketSize, storage)]

\* ================================================= a stand-alone Framer
\* The caller of tests/test_framer.cpp: a Framer<kMaxPacketSize>, a callback
\* object that records the frames it is given, and loops that feed a sequence
\* of bytes to processByte one at a time.

Errors == { "OK", "FrameTooLarge", "CobsDecodeFailed", "CrcMismatch",
            "FrameHeaderSize", "MsgVersionMismatch", "MsgIdUnknown",
            "MsgLengthMismatch", "InvalidParameter", "TransportError" }

\* What a registered callback may return.
CallbackReturns == { "OK", "InvalidParameter" }

\* Frames handed to createPacket: the Framer is agnostic to their contents.
\* The last one does not fit a packet of kMaxPacketSize bytes.
Frames ==
    { << >>, << 0 >>, << 1 >>, << 0, 0 >>, << 0, 1 >>, << 1, 0 >>, << 1, 1 >>,
      << 255, 0 >>, << 0, 0, 0, 0, 0, 0 >>,
      << 1, 7, 18, 52, 86, 120, 0, 4, 1, 2, 3, 4 >>,
      Fill(kMaxFrameSize + 1, 1) }

\* Bytes that are no packet: delimiters, truncated and invalid encodings, and
\* runs of non-zero bytes up to one more than the receive buffer holds.
ByteRuns ==
    { << 0 >>, << 0, 0 >>, << 0, 0, 0 >>, << 1 >>, << 3, 7 >>, << 1, 0 >>,
      << 3, 0 >>, << 2, 0, 1 >>, << 1, 1, 1, 1, 2, 1, 0 >>,
      Fill(kMaxPacketSize, 1), Fill(kMaxPacketSize + 1, 1),
      Fill(kMaxPacketSize + 1, 255) }

\* The packet createPacket makes of frame F in a buffer of kMaxPacketSize
\* bytes: [err, data, length].
PacketOf(F) ==
    createPacket(Span(F, Len(F)), Span(Fill(kMaxPacketSize, 0), kMaxPacketSize))

\* The caller's record of one processByte call, p being what it yielded.  st
\* is [buf, idx, results, idxs, calls, callAt]: the framer, the value returned
\* for each byte so far and rxIndex_ after it, the frames the callback was
\* given and the number of the byte that caused each.
Fed(st, p, thunk, ret) ==
    [buf |-> p.buf,
     idx |-> p.idx,
     idxs |-> Append(st.idxs, p.idx),
     results |-> Append(st.results,
                        IF p.emit THEN emitPacket(thunk, ret) ELSE p.err),
     calls |-> IF p.emit /\ thunk
               THEN Append(st.calls, SubSeq(p.buf, 1, p.frameLength))
               ELSE st.calls,
     callAt |-> IF p.emit /\ thunk
                THEN Append(st.callAt, Len(st.results) + 1)
                ELSE st.callAt]

\* One iteration of the feeding loop: processByte(byte) on the framer in st,
\* the callback called when a packet completes.
FeedByte(st, byte, thunk, ret, MaxPacketSize) ==
    Fed(st, processByte(st.buf, st.idx, byte, MaxPacketSize), thunk, ret)

\* for (i = 0; i < length; ++i) processByte(bytes[i]); for the bytes from
\* number i to number j - 1, the range taken by halves.
RECURSIVE FeedLoop(_, _, _, _, _, _, _)
FeedLoop(st, bytes, i, j, thunk, ret, MaxPacketSize) ==
    IF i >= j THEN st
    ELSE IF j - i = 1
    THEN FeedByte(st, bytes[i + 1], thunk, ret, MaxPacketSize)
    ELSE CHOOSE r \in
            { FeedLoop(s1, bytes, i + (j - i) \div 2, j, thunk, ret,
                       MaxPacketSize) :
                s1 \in { FeedLoop(st, bytes, i, i + (j - i) \div 2, thunk,
                                  ret, MaxPacketSize) } }
            : TRUE

\* A framer with nothing fed to it yet.
FeedStart(buf, idx) ==
    [buf |-> buf, idx |-> idx, results |-> << >>, idxs |-> << >>,
     calls |-> << >>, callAt |-> << >>]

\* The caller's record of its last feed: what it fed (kind, the frame the
\* packet was made of, the bytes fed, the number of the byte it tampered
\* with), the framer before it (rxIndex_, rxBuffer_, the callback and what it
\* returns, the value the last processByte before it returned) and what came
\* of it (as in Fed).
NoFeed ==
    [kind |-> "none", frame |-> << >>, input |-> << >>, pos |-> 0,
     startIdx |-> 0, startBuf |-> << >>, thunk |-> FALSE, ret |-> "OK",
     prevErr |-> "OK", results |-> << >>, idxs |-> << >>, calls |-> << >>,
     callAt |-> << >>]

\* No call of a stateless function is being followed.
NoTrial ==
    [op |-> "none", done |-> FALSE, size |-> 0, input |-> << >>,
     ok |-> FALSE, err |-> "OK", out |-> << >>, length |-> 0,
     decOk |-> FALSE, decLength |-> 0, dec |-> << >>, crc |-> << 0, 0 >>,
     consumed |-> FALSE, payload |-> << >>, writes |-> 0, below |-> TRUE]

\* Framer::Framer sets rxIndex_ and leaves rxBuffer_ as the storage holds it.
FramerAt(storage) ==
    /\ rxBuffer = storage
    /\ rxIndex = 0
    /\ cbThunk = FALSE
    /\ cbRet = "OK"
    /\ feeds = 0
    /\ cur = NoFeed

\* Framer::registerOnPacketCallback.
RegisterOnPacketCallback(ret) ==
    /\ cbThunk' = TRUE
    /\ cbRet' = ret
    /\ UNCHANGED << rxBuffer, rxIndex, feeds, cur >>
    /\ UNCHANGED << routerVars, nodeVars, codecVars >>

\* The caller's state once the bytes are fed, st being the feeding loop's
\* outcome; n feeds have been made then.
FeedDone(kind, frame, bytes, pos, n, st) ==
    /\ feeds' = n
    /\ rxBuffer' = st.buf
    /\ rxIndex' = st.idx
    /\ cur' = [kind |-> kind, frame |-> frame, input |-> bytes,
               pos |-> pos, startIdx |-> rxIndex, startBuf |-> rxBuffer,
               thunk |-> cbThunk, ret |-> cbRet,
               prevErr |-> IF cur.results = << >> THEN "OK"
                           ELSE Last(cur.results),
               results |-> st.results, idxs |-> st.idxs,
               calls |-> st.calls, callAt |-> st.callAt]
    /\ UNCHANGED << cbThunk, cbRet >>
    /\ UNCHANGED << routerVars, nodeVars, codecVars >>

\* The bytes are fed and the outcome recorded.
Feed(kind, frame, bytes, pos, n) ==
    /\ feeds < MaxFeeds
    /\ FeedDone(kind, frame, bytes, pos, n,
                FeedLoop(FeedStart(rxBuffer, rxIndex), bytes, 0, Len(bytes),
                         cbThunk, cbRet, kMaxPacketSize))

\* Bytes that are no packet.
FeedBytes(bytes) == Feed("bytes", << >>, bytes, 0, feeds + 1)

\* Every byte of the packet pkt that createPacket made of F.
FeedPacketOf(F, pkt) ==
    /\ pkt.err = "OK"
    /\ Feed("packet", F, SubSeq(pkt.data, 1, pkt.length), 0, feeds + 1)

\* createPacket(F), then every byte of the packet.
FeedPacket(F) == FeedPacketOf(F, PacketOf(F))

\* Every byte of pkt with one bit of byte number i of its encoded region
\* flipped.
FeedTamperedOf(F, pkt, i, bit) ==
    /\ pkt.err = "OK"
    /\ i < pkt.length - 1
    /\ Feed("tampered", F,
            SubSeq([pkt.data EXCEPT ![i + 1] = FlipBit(@, bit)], 1, pkt.length),
            i, MaxFeeds)

\* createPacket(F), one bit flipped, then every byte of the packet into a
\* framer that has received nothing yet; the caller feeds nothing after it.
FeedTampered(F, i, bit) ==
    /\ feeds = 0
    /\ cbThunk
    /\ FeedTamperedOf(F, PacketOf(F), i, bit)

\* One 0x00 and then every byte of pkt, the packet that createPacket made
\* of F.
FeedResyncOf(F, pkt) ==
    /\ pkt.err = "OK"
    /\ Feed("resync", F, << 0 >> \o SubSeq(pkt.data, 1, pkt.length), 1,
            feeds + 1)

\* A delimiter, then createPacket(F) and every byte of the packet.
FeedResync(F) == FeedResyncOf(F, PacketOf(F))

FramerNext ==
    \/ \E ret \in CallbackReturns : RegisterOnPacketCallback(ret)
    \/ \E bytes \in ByteRuns : FeedBytes(bytes)
    \/ \E F \in Frames : FeedPacket(F)
    \/ \E F \in Frames, i \in 0 .. kMaxPacketSize - 2, bit \in 0 .. 7 :
            FeedTampered(F, i, bit)
    \/ \E F \in Frames : FeedResync(F)

\* ================================================= a stand-alone Router
\* The caller of tests/test_router.cpp: a Router<MaxHandlers>, receivers that
\* record what they are given, and frames made by buildFrame, some of them
\* changed before onPacket gets them.

Versions == { 1, 3 }
MsgIds == { 1, 7, 10 }
MsgHashes == { << 0, 0 >>, << 4660, 22136 >>, kMsgHash }

\* Payloads up to one byte more than a frame buffer has room for.
Payloads ==
    { << >>, << 9 >>, << 9, 8, 7 >>, << 18, 52, 86, 120 >>,
      Fill(MaxPayloadSize, 0), Fill(MaxPayloadSize + 1, 1) }

\* The receivers: the object, the thunk its method needs and what the method
\* returns.
Receivers ==
    { [cbObj |-> "cap", cbThunk |-> "raw", ret |-> "OK"],
      [cbObj |-> "capErr", cbThunk |-> "raw", ret |-> "TransportError"],
      [cbObj |-> "recv", cbThunk |-> "msg", ret |-> "OK"],
      [cbObj |-> "recvErr", cbThunk |-> "msg", ret |-> "TransportError"] }

\* What the caller does to a built frame before onPacket gets it.
Changes ==
    { "none", "version", "lenLow", "lenHigh", "extra", "cut", "null",
      "versionLen", "short", "versionShort", "nullShort" }

\* uint8_t frameBuf[kMaxFrameSize], not initialised.
FrameBuf == Span(Fill(kMaxFrameSize, 170), kMaxFrameSize)

\* The frame span after the change.
Changed(frame, change) ==
    IF change = "version"
    THEN Span([frame.data EXCEPT ![1] = (@ + 1) % 256], frame.length)
    ELSE IF change = "lenLow"
    THEN Span([frame.data EXCEPT ![8] = (@ + 1) % 256], frame.length)
    ELSE IF change = "lenHigh"
    THEN Span([frame.data EXCEPT ![7] = (@ + 1) % 256], frame.length)
    ELSE IF change = "extra" THEN Span(frame.data, frame.length + 1)
    ELSE IF change = "cut" THEN Span(frame.data, frame.length - 1)
    ELSE IF change = "null" THEN NullSpan(frame.length)
    ELSE IF change = "versionLen"
    THEN Span([frame.data EXCEPT ![1] = (@ + 1) % 256,
                                 ![8] = (@ + 1) % 256], frame.length)
    ELSE IF change = "short" THEN Span(frame.data, kHeaderSize - 1)
    ELSE IF change = "versionShort"
    THEN Span([frame.data EXCEPT ![1] = (@ + 1) % 256], kHeaderSize - 1)
    ELSE IF change = "nullShort" THEN NullSpan(kHeaderSize - 1)
    ELSE frame

\* The caller's record of its last onPacket: the arguments of buildFrame, the
\* change, the span given to onPacket and what onPacket yielded.
NoDispatch ==
    [kind |-> "none", msgId |-> 0, msgHash |-> << 0, 0 >>, payload |-> << >>,
     change |-> "none", frame |-> NullSpan(0), err |-> "OK", calls |-> << >>,
     decodes |-> 0]

\* The caller's record of its last registerHandler: the table before the
\* call, the arguments and the value returned.
NoRegistration ==
    [kind |-> "none", before |-> NoHandlers, msgId |-> 0, cbObj |-> "",
     cbThunk |-> "none", ret |-> "OK", err |-> "OK"]

\* Router::Router(version), and a caller that has done nothing yet.
RouterAt(version) ==
    /\ handlers = NoHandlers
    /\ expectedVersion = version
    /\ rlast = NoDispatch
    /\ rreg = NoRegistration

\* The caller's record of its last poll: the node, its rxIndex_ and the
\* bytes of its ring before the poll with what had put them there, the value
\* poll returned, and the results and the log of poll's loop.
NoPoll ==
    [node |-> "", startIdx |-> 0, input |-> << >>, sent |-> << >>,
     errors |-> 0, results |-> << >>, log |-> << >>]

\* The caller's record of its last publish: the node, the arguments, the
\* value returned, the number of calls of transport_.write and the peer's
\* ring before and after.
NoPublish ==
    [node |-> "", msgId |-> 0, msgHash |-> << 0, 0 >>, payload |-> NullSpan(0),
     err |-> "OK", writes |-> 0, before |-> << >>, after |-> << >>]

Nodes == { "A", "B" }
Peer(n) == IF n = "A" THEN "B" ELSE "A"

\* Node A with expectedVersion versionA and node B with expectedVersion 1 on
\* an empty DuplexLink<LinkCapacity>, every byte of the nodes' storage
\* holding the value storage.
NodesAt(versionA, storage) ==
    /\ node = [n \in Nodes |->
                    NewNode(IF n = "A" THEN versionA ELSE 1, storage)]
    /\ link = [n \in Nodes |-> << >>]
    /\ sent = [n \in Nodes |-> << >>]
    /\ plast = NoPoll
    /\ publast = NoPublish
    /\ published = [n \in Nodes |-> << >>]
    /\ delivered = [n \in Nodes |-> << >>]
    /\ nops = 0

\* The stand-alone Framer at its start; the Router and the nodes are not
\* used.
FramerInit ==
    /\ \E storage \in { Fill(kMaxPacketSize, 0), Fill(kMaxPacketSize, 255) } :
            FramerAt(storage)
    /\ RouterAt(1)
    /\ NodesAt(1, 0)
    /\ trial = NoTrial

SpecFramer == FramerInit /\ [][FramerNext]_vars

\* Runs of non-zero bytes longer than the receive buffer, which the bytes of
\* a packet follow before the next delimiter.
Overruns ==
    { Fill(kMaxPacketSize + 1, 1), Fill(kMaxPacketSize + 2, 255),
      Fill(2 * kMaxPacketSize + 2, 1) }

\* Every byte of junk and then every byte of pkt, the packet that
\* createPacket made of F.
FeedOverrunOf(F, pkt, junk) ==
    /\ pkt.err = "OK"
    /\ Feed("overrun", F, junk \o SubSeq(pkt.data, 1, pkt.length),
            Len(junk), feeds + 1)

\* A run too long for the receive buffer, then createPacket(F) and every
\* byte of the packet.
FeedOverrun(F, junk) == FeedOverrunOf(F, PacketOf(F), junk)

\* Frames one and two bytes longer than a frame whose packet fits in
\* kMaxPacketSize bytes with its delimiter.
LongFrames ==
    { Fill(kMaxFrameSize + 1, 1), Append(Fill(kMaxFrameSize, 7), 255),
      Fill(kMaxFrameSize + 2, 1), Append(Fill(kMaxFrameSize + 1, 255), 7) }

\* The packet of F made by a sender whose Framer has twice the
\* MaxPacketSize: [err, data, length].
LongPacketOf(F) ==
    createPacket(Span(F, Len(F)),
                 Span(Fill(2 * kMaxPacketSize, 0), 2 * kMaxPacketSize))

\* createPacket(F) on the sender's Framer, then every byte of the packet
\* into this one.
FeedLongPacket(F) ==
    /\ LongPacketOf(F).err = "OK"
    /\ Feed("long", F, SpanBytes(LongPacketOf(F)), 0, feeds + 1)

\* The stand-alone Framer fed runs of bytes, packets, packets too long for
\* it, and packets that follow an oversized run without a delimiter in
\* between.
OverrunNext ==
    \/ \E ret \in CallbackReturns : RegisterOnPacketCallback(ret)
    \/ \E bytes \in ByteRuns : FeedBytes(bytes)
    \/ \E F \in Frames : FeedPacket(F)
    \/ \E F \in Frames, junk \in Overruns : FeedOverrun(F, junk)
    \/ \E F \in LongFrames : FeedLongPacket(F)

SpecOverrun == FramerInit /\ [][OverrunNext]_vars

\* The stand-alone Router at its start; the Framer is not used.
RouterInit ==
    /\ \E version \in Versions : RouterAt(version)
    /\ FramerAt(Fill(kMaxPacketSize, 0))
    /\ NodesAt(1, 0)
    /\ trial = NoTrial

\* The table once registerHandler has returned r.  The caller registers its
\* handlers before it gives the router a frame.
Registered(r) ==
    /\ rlast.kind = "none"
    /\ r.err = "OK"
    /\ handlers' = r.table
    /\ UNCHANGED << expectedVersion, rlast, rreg >>
    /\ UNCHANGED << framerVars, nodeVars, codecVars >>

\* Router::registerHandler, either overload, returning OK.
RegisterHandler(msgId, rcv) ==
    Registered(registerHandler(handlers, msgId, rcv.cbObj, rcv.cbThunk,
                               rcv.ret))

\* Router::registerHandler returning InvalidParameter: the table is full
\* and stays as it is.
RegisterHandlerFull(msgId, rcv) ==
    /\ rlast.kind = "none"
    /\ registerHandler(handlers, msgId, rcv.cbObj, rcv.cbThunk, rcv.ret).err
            = "InvalidParameter"
    /\ rlast' = [NoDispatch EXCEPT !.kind = "full", !.msgId = msgId,
                                   !.err = "InvalidParameter"]
    /\ UNCHANGED << handlers, expectedVersion, rreg >>
    /\ UNCHANGED << framerVars, nodeVars, codecVars >>

\* The caller's record once onPacket has yielded r for the span given.
Dispatched(msgId, msgHash, payload, change, given, r) ==
    /\ rlast' = [kind |-> "dispatch", msgId |-> msgId, msgHash |-> msgHash,
                 payload |-> payload, change |-> change, frame |-> given,
                 err |-> r.err, calls |-> r.calls, decodes |-> r.decodes]
    /\ UNCHANGED << handlers, expectedVersion, rreg >>
    /\ UNCHANGED << framerVars, nodeVars, codecVars >>

\* onPacket on the span given.
Given(msgId, msgHash, payload, change, given) ==
    /\ given.length <= kMaxFrameSize
    /\ Dispatched(msgId, msgHash, payload, change, given,
                  onPacket(handlers, expectedVersion, given))

\* What follows buildFrame: onPacket on the changed frame, or nothing when
\* buildFrame failed.
Built(msgId, msgHash, payload, change, built) ==
    IF built.err = "OK"
    THEN Given(msgId, msgHash, payload, change,
               Changed(Span(built.data, built.length), change))
    ELSE /\ change = "none"
         /\ rlast' = [NoDispatch EXCEPT !.kind = "unbuilt", !.msgId = msgId,
                            !.msgHash = msgHash, !.payload = payload,
                            !.err = built.err]
         /\ UNCHANGED << handlers, expectedVersion, rreg >>
         /\ UNCHANGED << framerVars, nodeVars, codecVars >>

\* buildFrame(msgId, msgHash, payload) into a frame buffer, the change, then
\* onPacket.
Dispatch(msgId, msgHash, payload, change) ==
    /\ rlast.kind = "none"
    /\ Built(msgId, msgHash, payload, change,
             buildFrame(expectedVersion, msgId, msgHash,
                        Span(payload, Len(payload)), FrameBuf))

RouterNext ==
    \/ \E msgId \in MsgIds, rcv \in Receivers : RegisterHandler(msgId, rcv)
    \/ \E msgId \in MsgIds, rcv \in Receivers :
            RegisterHandlerFull(msgId, rcv)
    \/ \E msgId \in MsgIds, msgHash \in MsgHashes, payload \in Payloads,
          change \in Changes : Dispatch(msgId, msgHash, payload, change)

SpecRouter == RouterInit /\ [][RouterNext]_vars

\* ==================================================== the handler table
\* A caller that registers receivers, again and again and whatever
\* registerHandler returns, and then gives the router one frame made by
\* buildFrame.

\* The table and the caller's record once registerHandler has yielded r.
TableRegistered(msgId, rcv, r) ==
    /\ handlers' = r.table
    /\ rreg' = [kind |-> "reg", before |-> handlers, msgId |-> msgId,
                cbObj |-> rcv.cbObj, cbThunk |-> rcv.cbThunk,
                ret |-> rcv.ret, err |-> r.err]
    /\ UNCHANGED << expectedVersion, rlast >>
    /\ UNCHANGED << framerVars, nodeVars, codecVars >>

\* Router::registerHandler(msgId, obj, method), either overload.
TableRegister(msgId, rcv) ==
    /\ rlast.kind = "none"
    /\ TableRegistered(msgId, rcv,
                       registerHandler(handlers, msgId, rcv.cbObj,
                                       rcv.cbThunk, rcv.ret))

\* The frames given after the registrations: hashes a typed handler takes
\* and turns down, a payload TypedMsg decodes.
TableNext ==
    \/ \E msgId \in MsgIds, rcv \in Receivers : TableRegister(msgId, rcv)
    \/ \E msgId \in MsgIds, msgHash \in { kMsgHash, << 0, 0 >> } :
            Dispatch(msgId, msgHash, << 18, 52, 86, 120 >>, "none")

SpecTable == RouterInit /\ [][TableNext]_vars

\* ============================================= two Nodes on a DuplexLink
\* The caller of tests/test_node.cpp: nodes A and B on the two endpoints of a
\* DuplexLink<LinkCapacity>, B's receivers registered before the traffic
\* starts, then publishes of A and polls of B in any order; besides, a peer
\* that writes packets of frames of its own making to B's ring, and noise on
\* that ring.

\* The registrations made: node, msgId, receiver.  The receivers are the
\* Sink of tests/test_node.cpp and one whose method returns an error.
Registrations ==
    { << "B", 9, [cbObj |-> "sink", cbThunk |-> "raw", ret |-> "OK"] >>,
      << "B", 9, [cbObj |-> "sinkErr", cbThunk |-> "raw",
                  ret |-> "TransportError"] >>,
      << "B", 7, [cbObj |-> "sink", cbThunk |-> "raw", ret |-> "OK"] >> }

\* The arguments of publish: msgId, msgHash, payload.  The last payload is
\* one byte too long.
Publications ==
    { << 9, << 43707, 52445 >>, << 16, 0, 32 >> >>,
      << 9, << 0, 0 >>, Fill(MaxPayloadSize, 255) >>,
      << 7, << 43707, 52445 >>, << >> >>,
      << 9, << 43707, 52445 >>, Fill(MaxPayloadSize + 1, 1) >> }

\* Frames no buildFrame of version 1 makes: one shorter than a header, one
\* whose len field says two bytes and that has one, one of version 2.
PeerFrames ==
    { << 1, 9, 170, 187, 204, 221, 0 >>,
      << 1, 9, 170, 187, 204, 221, 0, 2, 16 >>,
      << 2, 9, 170, 187, 204, 221, 0, 1, 16 >> }

\* The numbers of the bytes of the ring that noise changes.
NoisePositions == { 10 }

\* Node::registerHandler (raw) once Router::registerHandler has returned r.
NodeRegistered(n, r) ==
    /\ r.err = "OK"
    /\ node' = [node EXCEPT ![n].handlers = r.table]
    /\ UNCHANGED << link, sent, plast, publast, published, delivered, nops >>
    /\ UNCHANGED << framerVars, routerVars, codecVars >>

\* Node::registerHandler, before any traffic.
NodeRegisterHandler(n, msgId, rcv) ==
    /\ nops = 0
    /\ NodeRegistered(n, registerHandler(node[n].handlers, msgId, rcv.cbObj,
                                         rcv.cbThunk, rcv.ret))

\* The handlers a poll with the log given invoked, in the order of the calls.
RECURSIVE CallsOf(_, _)
CallsOf(log, k) ==
    IF k > Len(log) THEN << >> ELSE log[k].calls \o CallsOf(log, k + 1)

\* What was put into a ring, for the caller's record.
Entry(kind, msgId, msgHash, payload) ==
    [kind |-> kind, msgId |-> msgId, msgHash |-> msgHash, payload |-> payload]

\* The nodes and the link once publish has yielded r, span being the
\* payload given and payload its bytes.
NodePublished(n, msgId, msgHash, span, payload, r) ==
    /\ node' = [node EXCEPT ![n].txFrame = r.txFrame,
                            ![n].txPacket = r.txPacket]
    /\ link' = [link EXCEPT ![Peer(n)] = r.ring]
    /\ sent' = [sent EXCEPT ![Peer(n)] =
                    IF r.ring = link[Peer(n)] THEN @
                    ELSE Append(@, Entry(IF r.err = "OK" THEN "publish"
                                         ELSE "partial",
                                         msgId, msgHash, payload))]
    /\ publast' = [node |-> n, msgId |-> msgId, msgHash |-> msgHash,
                   payload |-> span, err |-> r.err, writes |-> r.writes,
                   before |-> link[Peer(n)], after |-> r.ring]
    /\ published' = [published EXCEPT ![n] =
                        IF r.err # "OK" THEN @
                        ELSE Append(@, Entry("publish", msgId, msgHash,
                                             payload))]
    /\ nops' = nops + 1
    /\ UNCHANGED << plast, delivered >>
    /\ UNCHANGED << framerVars, routerVars, codecVars >>

\* Node::publish(msgId, msgHash, span) on node n, span being any bufferSpan.
NodePublishSpan(n, msgId, msgHash, span) ==
    NodePublished(n, msgId, msgHash, span,
                  IF span.null THEN << >> ELSE SpanBytes(span),
                  publish(node[n], msgId, msgHash, span, link[Peer(n)],
                          LinkCapacity))

\* Node::publish(msgId, msgHash, payload) on node n, the span being the
\* bytes of payload.
NodePublish(n, msgId, msgHash, payload) ==
    NodePublishSpan(n, msgId, msgHash, Span(payload, Len(payload)))

\* The nodes and the link once poll has yielded r.
NodePolled(n, r) ==
    /\ node' = [node EXCEPT ![n].rxBuffer = r.st.buf,
                            ![n].rxIndex = r.st.idx]
    /\ link' = [link EXCEPT ![n] = SubSeq(@, r.reads + 1, Len(@))]
    /\ sent' = [sent EXCEPT ![n] = << >>]
    /\ plast' = [node |-> n, startIdx |-> node[n].rxIndex,
                 input |-> link[n], sent |-> sent[n],
                 errors |-> r.st.errors, results |-> r.st.results,
                 log |-> r.st.log]
    /\ delivered' = [delivered EXCEPT ![n] = @ \o CallsOf(r.st.log, 1)]
    /\ nops' = nops + 1
    /\ UNCHANGED << publast, published >>
    /\ UNCHANGED << framerVars, routerVars, codecVars >>

\* Node::poll on node n.
NodePoll(n) == NodePolled(n, poll(node[n], link[n]))

\* The link once the peer's write of the packet pkt has returned w.
PeerWritten(n, F, w) ==
    /\ w.ring # link[n]
    /\ link' = [link EXCEPT ![n] = w.ring]
    /\ sent' = [sent EXCEPT ![n] = Append(@, Entry("raw", 0, << 0, 0 >>, F))]
    /\ nops' = nops + 1
    /\ UNCHANGED << node, plast, publast, published, delivered >>
    /\ UNCHANGED << framerVars, routerVars, codecVars >>

\* A peer of its own making on the far end of n's ring: createPacket(F) on a
\* Framer, then Endpoint::write.
PeerWrite(n, F) ==
    /\ PacketOf(F).err = "OK"
    /\ PeerWritten(n, F, write(link[n], PacketOf(F).data, 0,
                               PacketOf(F).length, LinkCapacity))

\* Noise on n's ring: the lowest bit of byte number k of it is flipped.
Noise(n, k) ==
    /\ k <= Len(link[n])
    /\ link' = [link EXCEPT ![n][k] = FlipBit(@, 0)]
    /\ sent' = [sent EXCEPT ![n] = Append(@, Entry("noise", 0, << 0, 0 >>,
                                                   << k >>))]
    /\ nops' = nops + 1
    /\ UNCHANGED << node, plast, publast, published, delivered >>
    /\ UNCHANGED << framerVars, routerVars, codecVars >>

NodeInit ==
    /\ \E versionA \in Versions, storage \in { 0, 255 } :
            NodesAt(versionA, storage)
    /\ FramerAt(Fill(kMaxPacketSize, 0))
    /\ RouterAt(1)
    /\ trial = NoTrial

\* No more than MaxNodeOps publishes, polls and writes on the link are made.
NodeNext ==
    \/ \E reg \in Registrations : NodeRegisterHandler(reg[1], reg[2], reg[3])
    \/ /\ nops < MaxNodeOps
       /\ \E args \in Publications :
                NodePublish("A", args[1], args[2], args[3])
    \/ nops < MaxNodeOps /\ NodePoll("B")
    \/ nops < MaxNodeOps /\ \E F \in PeerFrames : PeerWrite("B", F)
    \/ nops < MaxNodeOps /\ \E k \in NoisePositions : Noise("B", k)

SpecNode == NodeInit /\ [][NodeNext]_vars

\* ======================================== a bad packet before a good one
\* B's ring is given a packet B turns down: one of a frame of a peer's own
\* making, one published for an id B may have no handler for, or one that
\* noise then changes.  A publishes after it, and B polls once.

ResumeInit ==
    /\ \E storage \in { 0, 255 } : NodesAt(1, storage)
    /\ FramerAt(Fill(kMaxPacketSize, 0))
    /\ RouterAt(1)
    /\ trial = NoTrial

ResumeNext ==
    \/ \E reg \in Registrations : NodeRegisterHandler(reg[1], reg[2], reg[3])
    \/ /\ plast.node = "" /\ Len(sent["B"]) < 3 /\ nops <= MaxNodeOps
       /\ \E args \in Publications :
            /\ Len(args[3]) <= MaxPayloadSize
            /\ NodePublish("A", args[1], args[2], args[3])
    \/ /\ plast.node = "" /\ sent["B"] = << >>
       /\ \E F \in PeerFrames : PeerWrite("B", F)
    \/ /\ plast.node = "" /\ Len(sent["B"]) = 1
       /\ \E k \in { 1, 10 } : Noise("B", k)
    \/ plast.node = "" /\ NodePoll("B")

SpecResume == ResumeInit /\ [][ResumeNext]_vars

\* ============================================== poll, one step at a time
\* Node B's ring is given packets, of A's publishes and of a peer's own
\* making, and then B calls poll once; nothing is written to the ring while
\* the poll runs.  The poll is the record [node, start, startIdx, input, sent,
\* errors, results, log, pc, more, byte, got, fed]: the loop's state of
\* PollStart, the node and its ring as they were at the call, where the
\* call is ("read", "body" or "done"), what the last transport_.read
\* returned and stored, the bytes read so far and the bytes given to
\* processByte so far.

\* Ring::pop: [ok, b, ring].
pop(ring) ==
    IF Len(ring) = 0 THEN [ok |-> FALSE, b |-> 0, ring |-> ring]
    ELSE [ok |-> TRUE, b |-> ring[1], ring |-> Tail(ring)]

\* Endpoint::read(byte): byte is left as it is when the ring is empty.
read(ring, byte) ==
    [ok |-> pop(ring).ok,
     byte |-> IF pop(ring).ok THEN pop(ring).b ELSE byte,
     ring |-> pop(ring).ring]

\* Node::poll up to its loop: if (!wired_) return 0; errors = 0; byte = 0.
PollCalled(name, n, ring, was) ==
    [node |-> name, start |-> n, startIdx |-> n.rxIndex, input |-> ring,
     sent |-> was, errors |-> 0, results |-> << >>, log |-> << >>,
     pc |-> IF n.wired THEN "read" ELSE "done", more |-> FALSE, byte |-> 0,
     got |-> << >>, fed |-> << >>]

\* The loop's condition that also ends the loop once a byte has been counted
\* as an error.
PollRead_untilError(p, r) ==
    [p EXCEPT !.pc = IF r.ok /\ p.errors = 0 THEN "body" ELSE "done",
              !.more = r.ok,
              !.byte = r.byte,
              !.got = IF r.ok THEN Append(@, r.byte) ELSE @]

\* The loop's condition, while (transport_.read(byte)), r being what read
\* yielded: into the body, or return errors.
PollRead(p, r) ==
    [p EXCEPT !.pc = IF r.ok THEN "body" ELSE "done",
              !.more = r.ok,
              !.byte = r.byte,
              !.got = IF r.ok THEN Append(@, r.byte) ELSE @]

\* The loop's body, st being the loop's state after processByte and the
\* count: back to the condition.
PollBody(p, st) ==
    [p EXCEPT !.pc = "read",
              !.fed = Append(@, p.byte),
              !.errors = st.errors,
              !.results = st.results,
              !.log = st.log]

\* The loop's state a poll in progress holds, for node n.
PollState(p, n) ==
    [buf |-> n.rxBuffer, idx |-> n.rxIndex, errors |-> p.errors,
     results |-> p.results, log |-> p.log]

\* B calls poll.
DrainCall(n) ==
    /\ plast.node = ""
    /\ plast' = PollCalled(n, node[n], link[n], sent[n])
    /\ sent' = [sent EXCEPT ![n] = << >>]
    /\ nops' = nops + 1
    /\ UNCHANGED << node, link, publast, published, delivered >>
    /\ UNCHANGED << framerVars, routerVars, codecVars >>

\* The poll in progress evaluates its loop's condition.
DrainRead ==
    /\ plast.node # ""
    /\ plast.pc = "read"
    /\ plast' = PollRead(plast, read(link[plast.node], plast.byte))
    /\ link' = [link EXCEPT ![plast.node] = read(@, plast.byte).ring]
    /\ UNCHANGED << node, sent, publast, published, delivered, nops >>
    /\ UNCHANGED << framerVars, routerVars, codecVars >>

\* The node and the caller's records once the body has run, st being the
\* loop's state after it.
DrainProcessed(n, st) ==
    /\ plast' = PollBody(plast, st)
    /\ node' = [node EXCEPT ![n].rxBuffer = st.buf, ![n].rxIndex = st.idx]
    /\ delivered' = [delivered EXCEPT ![n] =
                        @ \o CallsOf(st.log, Len(plast.log) + 1)]
    /\ UNCHANGED << link, sent, publast, published, nops >>
    /\ UNCHANGED << framerVars, routerVars, codecVars >>

\* The poll in progress runs its loop's body on the byte read.
DrainProcess ==
    /\ plast.node # ""
    /\ plast.pc = "body"
    /\ \E p \in { processByte(node[plast.node].rxBuffer,
                              node[plast.node].rxIndex, plast.byte,
                              kMaxPacketSize) } :
         \E st \in { PollProcessed(PollState(plast, node[plast.node]), p,
                                   node[plast.node]) } :
            DrainProcessed(plast.node, st)

DrainInit ==
    /\ NodesAt(1, 0)
    /\ FramerAt(Fill(kMaxPacketSize, 0))
    /\ RouterAt(1)
    /\ trial = NoTrial

\* No more than MaxNodeOps - 1 packets are put into the ring before the
\* poll is called.
DrainNext ==
    \/ \E reg \in Registrations : NodeRegisterHandler(reg[1], reg[2], reg[3])
    \/ /\ plast.node = "" /\ nops < MaxNodeOps - 1
       /\ \E args \in Publications :
                NodePublish("A", args[1], args[2], args[3])
    \/ /\ plast.node = "" /\ nops < MaxNodeOps - 1
       /\ \E F \in PeerFrames : PeerWrite("B", F)
    \/ DrainCall("B")
    \/ DrainRead
    \/ DrainProcess

\* A poll that has been called goes on, the caller's thread runs it: weak
\* fairness of the loop's condition and of its body.  For the body, ENABLED
\* is written as the state predicate it equals (the call is at the body).
DrainFair ==
    /\ WF_vars(DrainRead)
    /\ \/ []<>~(plast.node # "" /\ plast.pc = "body")
       \/ []<><<DrainProcess>>_vars

SpecDrain == DrainInit /\ [][DrainNext]_vars /\ DrainFair

\* ==================================================== a ring that fills
\* A publishes messages for id 9 until B's ring is full and beyond, and B
\* polls when there is something to read.

CrowdedNext ==
    \/ \E reg \in Registrations :
            reg[2] = 9 /\ NodeRegisterHandler(reg[1], reg[2], reg[3])
    \/ /\ nops < 2 * MaxNodeOps
       /\ \E args \in Publications :
            /\ args[1] = 9 /\ Len(args[3]) <= MaxPayloadSize
            /\ NodePublish("A", args[1], args[2], args[3])
    \/ nops < 2 * MaxNodeOps /\ link["B"] # << >> /\ NodePoll("B")

SpecCrowded == ResumeInit /\ [][CrowdedNext]_vars

\* ======================================================= publishes only
\* A publishes and nobody polls: payloads that fit and one that does not,
\* null spans with and without a length, a ring with room and without.

PublishNext ==
    \/ /\ nops <= MaxNodeOps
       /\ \E args \in Publications :
                NodePublish("A", args[1], args[2], args[3])
    \/ /\ nops <= MaxNodeOps
       /\ \E length \in { 0, 2 } :
                NodePublishSpan("A", 9, << 43707, 52445 >>, NullSpan(length))

SpecPublish == ResumeInit /\ [][PublishNext]_vars

\* ====================================================== both directions
\* A and B both publish and both poll, in any order.  Each has a sink for
\* id 9 or none; a node publishes only while the peer's ring has room for a
\* packet of the largest size, and polls when there is something to read.

DuplexRegistrations ==
    { << "A", 9, [cbObj |-> "sinkA", cbThunk |-> "raw", ret |-> "OK"] >>,
      << "B", 9, [cbObj |-> "sinkB", cbThunk |-> "raw", ret |-> "OK"] >> }

\* What the two nodes publish: msgId, msgHash, payload.
DuplexPublications(n) ==
    IF n = "A"
    THEN { << 9, << 43707, 52445 >>, << 16, 0, 32 >> >>,
           << 9, << 0, 0 >>, Fill(MaxPayloadSize, 255) >> }
    ELSE { << 9, << 4660, 22136 >>, << 0 >> >>,
           << 7, << 43707, 52445 >>, << >> >> }

DuplexNext ==
    \/ \E reg \in DuplexRegistrations :
            NodeRegisterHandler(reg[1], reg[2], reg[3])
    \/ /\ nops <= MaxNodeOps + 1
       /\ \E n \in Nodes : \E args \in DuplexPublications(n) :
            /\ Len(link[Peer(n)]) + kMaxPacketSize <= LinkCapacity
            /\ NodePublish(n, args[1], args[2], args[3])
    \/ /\ nops <= MaxNodeOps + 1
       /\ \E n \in Nodes : link[n] # << >> /\ NodePoll(n)

SpecDuplex == ResumeInit /\ [][DuplexNext]_vars

\* ================================== calls of the stateless functions
\* One call is followed at a time: of cobsEncode and cobsDecodeInPlace as
\* round_trip of tests/test_cobs.cpp makes them, of createPacket on a frame
\* of at most maxFrameSize(P) bytes into a buffer of maxPacketSize(P) bytes,
\* or of the packetization of Node<Transport, P, MaxHandlers>::publish.  The
\* arguments are chosen at the start and the call is the one step.

\* sizeof(encoded), sizeof(scratch) in round_trip.
kScratchSize == 1024

\* The byte values the inputs are made of.
FillBytes == { 0, 1, 255 }

\* Every sequence of at most n bytes of S.
RECURSIVE ByteSeqs(_, _)
ByteSeqs(S, n) ==
    IF n = 0 THEN { << >> }
    ELSE ByteSeqs(S, n - 1)
            \cup { Append(s, b) : s \in ByteSeqs(S, n - 1), b \in S }

\* big[i] = (i % 251) + 1 for from <= i < to, as test_patterns fills it.
RECURSIVE Ramp(_, _)
Ramp(from, to) ==
    IF from >= to THEN << >>
    ELSE IF to - from = 1 THEN << (from % 251) + 1 >>
    ELSE Ramp(from, from + (to - from) \div 2)
            \o Ramp(from + (to - from) \div 2, to)

\* big[i] = (i % 50 == 0) ? 0 : (i % 251) + 1 for from <= i < to.
RECURSIVE Sprinkled(_, _)
Sprinkled(from, to) ==
    IF from >= to THEN << >>
    ELSE IF to - from = 1
    THEN << IF from % 50 = 0 THEN 0 ELSE (from % 251) + 1 >>
    ELSE Sprinkled(from, from + (to - from) \div 2)
            \o Sprinkled(from + (to - from) \div 2, to)

\* The inputs of round_trip: every short sequence, the five of
\* test_patterns, and runs of non-zero bytes about one and two full blocks
\* long, alone and next to zeros.
CodecInputs ==
    ByteSeqs(FillBytes, MaxPayloadSize)
        \cup { << 17, 34, 51, 68 >>, << 17, 0, 34, 0, 0, 51 >>,
               << 17, 34, 0, 51 >>,
               Ramp(0, 300), Sprinkled(0, 300),
               Fill(253, 1), Fill(254, 1), Fill(255, 255),
               Fill(254, 1) \o << 0 >>, << 0 >> \o Fill(254, 255),
               Fill(254, 1) \o << 0, 0 >>,
               Fill(254, 255) \o << 0 >> \o Fill(254, 1) \o << 7 >>,
               Fill(508, 1), Fill(509, 1) }

\* The large MaxPayloadSize arguments tried: those for which
\* maxFrameSize(P) + 4 is one and two full blocks of 254 bytes.
LargePayloadSizes == { 242, 496 }

\* << P, frame >>: frames of at most maxFrameSize(P) bytes.  Every length
\* is tried for the small P, and for the large ones the longest frames and
\* one a byte shorter, with and without a zero.
SizedFrames ==
    UNION { { << P, Fill(n, b) >> : n \in 0 .. maxFrameSize(P),
                                    b \in FillBytes } :
                P \in 0 .. MaxPayloadSize }
        \cup { << P, Fill(maxFrameSize(P) - k, b) >> :
                    P \in LargePayloadSizes, k \in { 0, 1 }, b \in { 1, 255 } }
        \cup { << P, Fill(100, 1) \o << 0 >> \o Fill(maxFrameSize(P) - 101, 1) >> :
                    P \in LargePayloadSizes }
        \cup { << P, Ramp(0, maxFrameSize(P)) >> : P \in LargePayloadSizes }

\* << P, payload >>: payloads of at most P bytes, likewise.
SizedPayloads ==
    UNION { { << P, Fill(n, b) >> : n \in 0 .. P, b \in FillBytes } :
                P \in 0 .. MaxPayloadSize }
        \cup { << P, Fill(P - k, b) >> :
                    P \in LargePayloadSizes, k \in { 0, 1 }, b \in { 1, 255 } }
        \cup { << P, Fill(100, 1) \o << 0 >> \o Fill(P - 101, 1) >> :
                    P \in LargePayloadSizes }
        \cup { << P, Ramp(0, P) >> : P \in LargePayloadSizes }

\* The byte values the short encoded regions are made of: the delimiter
\* value, codes of groups of 0, 1 and 2 data bytes, and the code of a full
\* block.
CodeBytes == { 0, 1, 2, 3, 255 }

\* Encoded regions given to cobsDecodeInPlace: every short one, and long
\* ones with a full block that is the last group, is followed by other
\* groups, is a byte short, or has a zero in it or after it.
EncodedRegions ==
    ByteSeqs(CodeBytes, MaxRegion)
        \cup { << 255 >> \o Fill(254, 1),
               << 255 >> \o Fill(254, 1) \o << 1 >>,
               << 255 >> \o Fill(253, 1),
               << 255 >> \o Fill(254, 1) \o << 255 >> \o Fill(254, 2)
                    \o << 3, 9, 9 >>,
               << 255 >> \o Fill(254, 1) \o << 255 >> \o Fill(254, 2),
               << 255 >> \o Fill(100, 1) \o << 0 >> \o Fill(153, 1) \o << 1 >>,
               << 255 >> \o Fill(254, 1) \o << 0 >>,
               << 2, 7, 255 >> \o Fill(254, 1) \o << 2, 7 >> }

\* Inputs of crc32_iso_hdlc: none (a null pointer with length 0), the
\* nine ASCII digits of the test, and a few others.
CrcInputs ==
    { << >>, << 49, 50, 51, 52, 53, 54, 55, 56, 57 >>, << 0 >>, << 255 >>,
      << 0, 0, 0, 0 >>, << 49 >>, Fill(kMaxFrameSize, 255) }

\* Payload spans given to buildFrame: null ones, empty and short ones, and
\* two of 65535 and 65536 bytes, whose storage the calls made here never
\* read and which is not spelled out.
BuildPayloads ==
    { NullSpan(0), NullSpan(2), Span(<< >>, 0), Span(<< 16, 0, 32 >>, 3),
      Span(Fill(MaxPayloadSize, 255), MaxPayloadSize),
      Span(<< 1 >>, 65535), Span(<< 1 >>, 65536) }

\* Output spans given to buildFrame, their bytes set to 0xAA: a null one,
\* ones of up to one byte more than kMaxFrameSize, and one that says it has
\* room for 65536 payload bytes.
BuildOutFrames ==
    { NullSpan(kMaxFrameSize) }
        \cup { Span(Fill(n, 170), n) : n \in 0 .. kMaxFrameSize + 1 }
        \cup { Span(Fill(kMaxFrameSize, 170), kHeaderSize + 65536) }

\* The arguments of the buildFrame calls, and the router's version.  A
\* payload of 65535 bytes is only given with an output span too small for
\* it.
BuildFrameCalls ==
    { [version |-> c[1], msgId |-> c[2], msgHash |-> c[3],
       payload |-> c[4], outFrame |-> c[5]] :
        c \in { d \in Versions \X { 0, 9 }
                        \X { << 0, 0 >>, << 43707, 52445 >> }
                        \X BuildPayloads \X BuildOutFrames :
                    /\ d[4].length = 65535 => d[5].length <= kMaxFrameSize + 1
                    /\ d[5].length > kMaxFrameSize + 1
                            => d[4].length \in { 0, 65536 } } }

\* sizeof(buf) in test_writer_reader_roundtrip.
kMarshalBuffer == 128

\* What is written and read: << type, value >> for a scalar and
\* << "array", type, values >> for a fixed array.  The values are the
\* least, the greatest and one other of each type, those of the test among
\* them.
Items ==
    { << "u8", 0 >>, << "u8", 165 >>, << "u8", 255 >>,
      << "i8", -128 >>, << "i8", -1 >>, << "i8", 127 >>,
      << "bool", FALSE >>, << "bool", TRUE >>,
      << "u16", 0 >>, << "u16", 258 >>, << "u16", 65535 >>,
      << "i16", -32768 >>, << "i16", -1234 >>, << "i16", 32767 >>,
      << "u32", << 0, 0 >> >>, << "u32", << 4386, 13124 >> >>,
      << "u32", << 65535, 65535 >> >>,
      << "i32", (-2147483647) - 1 >>, << "i32", -12345678 >>,
      << "i32", 2147483647 >>,
      << "u64", << 0, 0, 0, 0 >> >>, << "u64", << 258, 772, 1286, 1800 >> >>,
      << "u64", << 65535, 65535, 65535, 65535 >> >>,
      << "i64", << -32768, 0, 0, 0 >> >>,
      << "i64", << -1, 65535, 65535, 65535 >> >>,
      << "i64", << 32767, 65535, 65535, 65535 >> >>,
      << "array", "u16", << 1, 2, 65535 >> >>,
      << "array", "i8", << -1, 0, 1 >> >>,
      << "array", "bool", << TRUE, FALSE >> >>,
      << "array", "i64", << << -1, 65535, 65535, 65534 >>, << 0, 0, 0, 1 >> >> >>,
      << "array", "u8", << >> >> }

\* The sequences written: none, every one and every two of the items, the
\* scalars and the array of the test in its order, and one of every type.
MarshalInputs ==
    { << >> } \cup { << a >> : a \in Items }
        \cup { << a, b >> : a \in Items, b \in Items }
        \cup { << << "u8", 165 >>, << "i16", -1234 >>,
                  << "u32", << 4386, 13124 >> >>, << "i32", -12345678 >>,
                  << "bool", TRUE >>, << "array", "u16", << 1, 2, 65535 >> >> >>,
               << << "u8", 255 >>, << "i8", -128 >>, << "u16", 65535 >>,
                  << "i16", -32768 >>, << "u32", << 65535, 65535 >> >>,
                  << "i32", -1 >>, << "u64", << 258, 772, 1286, 1800 >> >>,
                  << "i64", << -32768, 0, 0, 0 >> >>, << "bool", FALSE >>,
                  << "array", "i8", << -1, 0, 1 >> >> >> }

\* The buffers a bool is read from: one byte of any value, or none.
BoolBuffers == { << >> } \cup { << b >> : b \in 0 .. 255 }

\* The call to be made.
Trial(op, size, input) ==
    [NoTrial EXCEPT !.op = op, !.size = size, !.input = input]

\* The caller's record once round_trip has decoded, d being what
\* cobsDecodeInPlace returned for the encoded bytes.
RoundTripDecoded(enc, d) ==
    trial' = [trial EXCEPT !.done = TRUE,
                           !.ok = enc.ok,
                           !.out = SubSeq(enc.out, 1, enc.length),
                           !.length = enc.length,
                           !.decOk = d.ok,
                           !.decLength = d.length,
                           !.dec = SubSeq(d.buf, 1, d.length),
                           !.writes = d.writes,
                           !.below = d.below]

\* memcpy(scratch, encoded, encodedLen); cobsDecodeInPlace(scratch,
\* encodedLen, decodedLen).
RoundTripEncoded(enc) ==
    RoundTripDecoded(enc, cobsDecodeInPlace(enc.out, enc.length))

\* round_trip(input, inputLen).
RoundTrip ==
    /\ trial.op = "cobs"
    /\ ~trial.done
    /\ RoundTripEncoded(cobsEncode(trial.input, Len(trial.input),
                                   Fill(kScratchSize, 0), kScratchSize, 0))
    /\ UNCHANGED << framerVars, routerVars, nodeVars >>

\* The caller's record of what cobsDecodeInPlace returned and left in the
\* buffer.
Decoded(d) ==
    trial' = [trial EXCEPT !.done = TRUE,
                           !.decOk = d.ok,
                           !.decLength = d.length,
                           !.dec = SubSeq(d.buf, 1, d.length),
                           !.writes = d.writes,
                           !.below = d.below]

\* cobsDecodeInPlace(buffer, encodedLength, decodedLength) on a buffer
\* that holds the encoded region.
Decode ==
    /\ trial.op = "decode"
    /\ ~trial.done
    /\ Decoded(cobsDecodeInPlace(trial.input, Len(trial.input)))
    /\ UNCHANGED << framerVars, routerVars, nodeVars >>

\* w.write(value) or w.writeArray(values, count) for one item.
WriteItem(w, item) ==
    IF item[1] = "array" THEN writeArray(w, item[2], item[3], 0)
    ELSE WriterWrite(w, item[1], item[2])

\* The writes of the test, one after the other whatever they return: st is
\* [w, oks], the writer and the values returned so far.
RECURSIVE WriteAll(_, _, _)
WriteAll(st, items, i) ==
    IF i >= Len(items) THEN st
    ELSE WriteAll([w |-> WriteItem(st.w, items[i + 1]),
                   oks |-> Append(st.oks, WriteItem(st.w, items[i + 1]).ok)],
                  items, i + 1)

\* r.read(out) or r.readArray(outValues, count) for the type of one item.
ReadItem(r, item) ==
    IF item[1] = "array"
    THEN readArray(r, item[2], Len(item[3]), 0, << >>)
    ELSE ReaderRead(r, item[1])

\* What the caller has after a read of the type of item: an item of that
\* type with the value read.
ItemRead(r, item) ==
    IF item[1] = "array" THEN << "array", item[2], r.value >>
    ELSE << item[1], r.value >>

\* The reads of the test: st is [r, oks, items], the reader, the values
\* returned and the items read so far.
RECURSIVE ReadAll(_, _, _)
ReadAll(st, items, i) ==
    IF i >= Len(items) THEN st
    ELSE ReadAll([r |-> ReadItem(st.r, items[i + 1]),
                  oks |-> Append(st.oks, ReadItem(st.r, items[i + 1]).ok),
                  items |-> Append(st.items,
                                   ItemRead(ReadItem(st.r, items[i + 1]),
                                            items[i + 1]))],
                 items, i + 1)

\* The caller's record once everything is read: rd is what ReadAll left.
MarshalRead(wr, rd) ==
    trial' = [trial EXCEPT !.done = TRUE,
                           !.ok = (\A k \in 1 .. Len(wr.oks) : wr.oks[k]),
                           !.out = SubSeq(wr.w.out.data, 1, wr.w.index),
                           !.length = wr.w.index,
                           !.decOk = (\A k \in 1 .. Len(rd.oks) : rd.oks[k]),
                           !.decLength = rd.r.index,
                           !.dec = rd.items,
                           !.consumed = (rd.r.index = rd.r.in.length)]

\* Reader r(bufferSpan{buf, w.bytesWritten()}) and the reads, wr being what
\* WriteAll left.
MarshalWritten(wr) ==
    MarshalRead(wr,
                ReadAll([r |-> NewReader(Span(wr.w.out.data, wr.w.index)),
                         oks |-> << >>, items |-> << >>],
                        trial.input, 0))

\* test_writer_reader_roundtrip for the items of the trial.
Marshal ==
    /\ trial.op = "marshal"
    /\ ~trial.done
    /\ MarshalWritten(WriteAll([w |-> NewWriter(Span(Fill(kMarshalBuffer, 0),
                                                     kMarshalBuffer)),
                                oks |-> << >>],
                               trial.input, 0))
    /\ UNCHANGED << framerVars, routerVars, nodeVars >>

\* The caller's record of Reader::read(bool &), r being the reader after it.
BoolRead(r) ==
    trial' = [trial EXCEPT !.done = TRUE,
                           !.decOk = r.ok,
                           !.decLength = r.index,
                           !.dec = r.value,
                           !.consumed = (r.index = r.in.length)]

\* test_reader_rejects_invalid_bool on the buffer of the trial.
ReadBool ==
    /\ trial.op = "readBool"
    /\ ~trial.done
    /\ BoolRead(ReaderRead(NewReader(Span(trial.input, Len(trial.input))),
                           "bool"))
    /\ UNCHANGED << framerVars, routerVars, nodeVars >>

\* A message type with a kMsgHash and an encode: its fields are items, and
\* encode writes them with a Writer over the span it is given and leaves
\* the number of bytes written in the span's length, [ok, data, length];
\* wr is what WriteAll left.
Encoded(wr, payload) ==
    IF \A k \in 1 .. Len(wr.oks) : wr.oks[k]
    THEN [ok |-> TRUE, data |-> wr.w.out.data, length |-> wr.w.index]
    ELSE [ok |-> FALSE, data |-> wr.w.out.data, length |-> payload.length]

\* msg.encode(payload).
encode(msg, payload) ==
    Encoded(WriteAll([w |-> NewWriter(payload), oks |-> << >>], msg, 0),
            payload)

\* The scratch buffers of node n are memory that spans point into: a view
\* [buffer, offset, length] is a bufferSpan that starts offset bytes into one
\* of them.
Scratch(n, buffer) ==
    IF buffer = "txFrame" THEN n.txFrame
    ELSE IF buffer = "txPacket" THEN n.txPacket
    ELSE n.rxBuffer

\* The bytes the view designates in node n.
ViewBytes(n, view) ==
    SubSeq(Scratch(n, view.buffer), view.offset + 1,
           view.offset + view.length)

\* Node n once data has been written through a view of buffer.
Staged(n, buffer, data) ==
    IF buffer = "txFrame" THEN [n EXCEPT !.txFrame = data]
    ELSE IF buffer = "txPacket" THEN [n EXCEPT !.txPacket = data]
    ELSE [n EXCEPT !.rxBuffer = data]

\* A node whose framer and publish share one buffer for packets.
Sent_sharedBuffer(n, r) ==
    [n EXCEPT !.txFrame = r.txFrame, !.txPacket = r.txPacket,
              !.rxBuffer = r.txPacket]

\* Node n once a publish has yielded r.
Sent(n, r) ==
    [n EXCEPT !.txFrame = r.txFrame, !.txPacket = r.txPacket]

\* publish<Msg> that stages the payload in the frame scratch.
PayloadSpan_txFrame(n) ==
    [buffer |-> "txFrame", offset |-> 0, length |-> MaxPayloadSize]

\* bufferSpan payload{txPacket_, MaxPayloadSize} of publish<Msg>.
PayloadSpan(n) ==
    [buffer |-> "txPacket", offset |-> 0, length |-> MaxPayloadSize]

\* What payload.data[i] yields in buildFrame's copy loop for a payload that
\* is a view of node n's scratch: the loop runs once the header is in
\* txFrame_ and before createPacket has written to txPacket_.
ViewAtCopy(n, view, msgId, msgHash) ==
    ViewBytes([n EXCEPT !.txFrame = WriteHeader(n.txFrame, n.expectedVersion,
                                                msgId, msgHash, view.length)],
              view)

\* Node::publish(msgId, msgHash, payload) for a payload that is a view of
\* node n's scratch.
publishView(n, msgId, msgHash, view, ring, Capacity) ==
    publish(n, msgId, msgHash,
            Span(ViewAtCopy(n, view, msgId, msgHash), view.length),
            ring, Capacity)

\* publish<Msg> once encode has returned enc for the span view.
PublishEncoded(n, msgId, view, enc, ring, Capacity) ==
    IF ~enc.ok
    THEN Published("InvalidParameter", Staged(n, view.buffer, enc.data).txFrame,
                   Staged(n, view.buffer, enc.data).txPacket, ring, 0)
    ELSE publishView(Staged(n, view.buffer, enc.data), msgId, kMsgHash,
                     [view EXCEPT !.length = enc.length],
                     ring, Capacity)

\* Node::publish<Msg>(msgId, msg) of node n.
publishMsg(n, msgId, msg, ring, Capacity) ==
    PublishEncoded(n, msgId, PayloadSpan(n),
                   encode(msg, Span(Scratch(n, PayloadSpan(n).buffer),
                                    PayloadSpan(n).length)),
                   ring, Capacity)

\* The messages published: of no field, of fields that fill the payload
\* and of fields that are one byte too many for it.
RECURSIVE SizeOfItems(_, _)
SizeOfItems(items, i) ==
    IF i >= Len(items) THEN 0
    ELSE (IF items[i + 1][1] = "array"
          THEN SizeOf(items[i + 1][2]) * Len(items[i + 1][3])
          ELSE SizeOf(items[i + 1][1]))
            + SizeOfItems(items, i + 1)
Msgs == { msg \in MarshalInputs : SizeOfItems(msg, 0) <= MaxPayloadSize + 1 }

\* The typed publishes tried: the node's storage before construction, the
\* payload of a raw publish made before (or none), the message, and the
\* room in the ring of the transport.
PublishMsgCalls ==
    { [storage |-> c[1], before |-> c[2], msg |-> c[3], capacity |-> c[4]] :
        c \in { 0, 255 }
                \X { << "none" >>, << "raw", << 1, 2, 3, 4 >> >>,
                     << "raw", << 0 >> >> }
                \X Msgs \X { kHeaderSize, LinkCapacity } }

\* The node of a typed publish: constructed, and the raw publish before, if
\* any, made.
NodeBefore(c) ==
    IF c.before[1] = "none" THEN NewNode(1, c.storage)
    ELSE Sent(NewNode(1, c.storage),
              publish(NewNode(1, c.storage), 9, << 43707, 52445 >>,
                      Span(c.before[2], Len(c.before[2])), << >>,
                      LinkCapacity))

\* The caller's record of a typed publish and of the raw publish of the
\* same message encoded into a buffer of its own.
PublishedBoth(typed, enc, raw) ==
    trial' = [trial EXCEPT !.done = TRUE,
                           !.ok = enc.ok,
                           !.err = typed.err,
                           !.out = typed,
                           !.length = enc.length,
                           !.decOk = (raw.err = "OK"),
                           !.dec = raw,
                           !.payload = SubSeq(enc.data, 1, enc.length)]

\* publish<Msg>(9, msg) on one node, and on a node in the same state
\* publish(9, Msg::kMsgHash, p) with p the encoding of msg in a buffer of
\* the caller.
PublishEncodedBoth(n, c, enc) ==
    PublishedBoth(publishMsg(n, 9, c.msg, << >>, c.capacity),
                  enc,
                  publish(n, 9, kMsgHash, Span(enc.data, enc.length), << >>,
                          c.capacity))

PublishMsg ==
    /\ trial.op = "publishMsg"
    /\ ~trial.done
    /\ PublishEncodedBoth(NodeBefore(trial.input), trial.input,
                          encode(trial.input.msg,
                                 Span(Fill(MaxPayloadSize, 0),
                                      MaxPayloadSize)))
    /\ UNCHANGED << framerVars, routerVars, nodeVars >>

\* The payload span onPacket gives a handler for the frame of frameLength
\* bytes that emitPacket took from rxBuffer_.
HandlerSpan(frameLength) ==
    [buffer |-> "rxBuffer", offset |-> kHeaderSize,
     length |-> frameLength - kHeaderSize]

\* A node with the handler of the object "echo" registered for msgId 9: the
\* handler publishes the payload span it is given on its own node, with
\* the hash it is given, keeps what publish returned and returns OK.
EchoNode(storage) ==
    [NewNode(1, storage) EXCEPT
        !.handlers = registerHandler(NoHandlers, 9, "echo", "raw", "OK").table]

\* The node at the far end, whose handler for msgId 9 records what it is
\* given.
ListenerNode ==
    [NewNode(1, 0) EXCEPT
        !.handlers = registerHandler(NoHandlers, 9, "rec", "raw", "OK").table]

\* The packets the far end has written for the payloads, from number k on.
RECURSIVE PacketsOf(_, _)
PacketsOf(payloads, k) ==
    IF k > Len(payloads) THEN << >>
    ELSE SpanBytes(PacketOf(
                SpanBytes(buildFrame(1, 9, << 43707, 52445 >>,
                                     Span(payloads[k], Len(payloads[k])),
                                     Span(Fill(kMaxFrameSize, 0),
                                          kMaxFrameSize)))))
            \o PacketsOf(payloads, k + 1)

\* The state of a poll whose handler publishes is [n, out, errors, log]:
\* the node, the ring its transport writes to, the error count, and for
\* each call of the handler what it was given, the node before and after
\* its publish, the bytes of its payload span after the publish, what
\* publish returned, the bytes publish put in the ring and what the far
\* end's poll of those bytes gave its handler.
EchoPublished(st, n1, call, view, pub) ==
    [n |-> Sent(n1, pub),
     out |-> pub.ring,
     errors |-> st.errors,
     log |-> Append(st.log,
                    [given |-> call.payload,
                     msgHash |-> call.msgHash,
                     before |-> n1,
                     after |-> Sent(n1, pub),
                     held |-> ViewBytes(Sent(n1, pub), view),
                     err |-> pub.err,
                     written |-> SubSeq(pub.ring, Len(st.out) + 1,
                                        Len(pub.ring)),
                     heard |-> CallsOf(
                        poll(ListenerNode,
                             SubSeq(pub.ring, Len(st.out) + 1,
                                    Len(pub.ring))).st.log, 1)])]

\* The loop's state once onPacket has yielded r for the frame in p, n1
\* being the node as processByte left it.
EchoDispatched(st, n1, p, r) ==
    IF r.calls # << >> /\ r.calls[1].cbObj = "echo"
    THEN EchoPublished(st, n1, r.calls[1], HandlerSpan(p.frameLength),
                       publishView(n1, p.buf[2], r.calls[1].msgHash,
                                   HandlerSpan(p.frameLength), st.out,
                                   LinkCapacity))
    ELSE [st EXCEPT !.n = n1,
                    !.errors = IF r.err # "OK" THEN @ + 1 ELSE @]

\* The loop's state once processByte has yielded p.
EchoProcessed(st, n1, p) ==
    IF p.emit
    THEN EchoDispatched(st, n1, p,
                        onPacket(n1.handlers, n1.expectedVersion,
                                 Span(p.buf, p.frameLength)))
    ELSE [st EXCEPT !.n = n1,
                    !.errors = IF p.err # "OK" THEN @ + 1 ELSE @]

\* The node once processByte has yielded p.
Framed(n, p) == [n EXCEPT !.rxBuffer = p.buf, !.rxIndex = p.idx]

\* Node::poll of a node whose handler publishes, on the bytes of the ring
\* from number i to number j - 1, the range taken by halves.
RECURSIVE EchoLoop(_, _, _, _)
EchoLoop(st, ring, i, j) ==
    IF i >= j THEN st
    ELSE IF j - i = 1
    THEN EchoProcessed(st,
                       Framed(st.n,
                              processByte(st.n.rxBuffer, st.n.rxIndex,
                                          ring[i + 1], kMaxPacketSize)),
                       processByte(st.n.rxBuffer, st.n.rxIndex, ring[i + 1],
                                   kMaxPacketSize))
    ELSE CHOOSE r \in
            { EchoLoop(s1, ring, i + (j - i) \div 2, j) :
                s1 \in { EchoLoop(st, ring, i, i + (j - i) \div 2) } }
            : TRUE

\* The polls tried: the node's storage and the payloads of the one or two
\* packets waiting in its ring.
EchoCalls ==
    { [storage |-> c[1], payloads |-> << c[2] >>] :
        c \in { 0, 255 } \X ByteSeqs(FillBytes, MaxPayloadSize) }
    \cup { [storage |-> c[1], payloads |-> << c[2], c[3] >>] :
            c \in { 0, 255 } \X ByteSeqs(FillBytes, MaxPayloadSize)
                    \X { << >>, << 0 >>, << 1, 2, 3, 4 >> } }

\* The caller's record of the poll.
Echoed(st) ==
    trial' = [trial EXCEPT !.done = TRUE,
                           !.ok = (st.errors = 0),
                           !.out = st.out,
                           !.length = Len(st.log),
                           !.dec = st.log]

\* poll() on the node with the packets in its ring.
PollEcho ==
    /\ trial.op = "echo"
    /\ ~trial.done
    /\ Echoed(EchoLoop([n |-> EchoNode(trial.input.storage), out |-> << >>,
                        errors |-> 0, log |-> << >>],
                       PacketsOf(trial.input.payloads, 1), 0,
                       Len(PacketsOf(trial.input.payloads, 1))))
    /\ UNCHANGED << framerVars, routerVars, nodeVars >>

EchoInit ==
    /\ \E c \in EchoCalls : trial = Trial("echo", 0, c)
    /\ FramerAt(Fill(kMaxPacketSize, 0))
    /\ RouterAt(1)
    /\ NodesAt(1, 0)

EchoNext == PollEcho

SpecEcho == EchoInit /\ [][EchoNext]_vars

\* crc32_iso_hdlc(data, length).
Checksum ==
    /\ trial.op = "crc"
    /\ ~trial.done
    /\ trial' = [trial EXCEPT !.done = TRUE,
                              !.crc = crc32_iso_hdlc(trial.input,
                                                     Len(trial.input))]
    /\ UNCHANGED << framerVars, routerVars, nodeVars >>

\* The caller's record of the output span buildFrame left and the Error it
\* returned.
FrameBuilt(built) ==
    trial' = [trial EXCEPT !.done = TRUE,
                           !.ok = (built.err = "OK"),
                           !.err = built.err,
                           !.out = built.data,
                           !.length = built.length]

\* Router::buildFrame(msgId, msgHash, payload, outFrame).
BuildFrame ==
    /\ trial.op = "buildFrame"
    /\ ~trial.done
    /\ FrameBuilt(buildFrame(trial.input.version, trial.input.msgId,
                             trial.input.msgHash, trial.input.payload,
                             trial.input.outFrame))
    /\ UNCHANGED << framerVars, routerVars, nodeVars >>

\* The caller's record of the packet span createPacket left and the Error
\* it returned.
TrialPacket(pkt) ==
    trial' = [trial EXCEPT !.done = TRUE,
                           !.ok = (pkt.err = "OK"),
                           !.err = pkt.err,
                           !.out = SubSeq(pkt.data, 1, pkt.length),
                           !.length = pkt.length]

\* createPacket(frame, packet) with packet.length = maxPacketSize(P).
SizedCreatePacket ==
    /\ trial.op = "createPacket"
    /\ ~trial.done
    /\ TrialPacket(createPacket(
            Span(trial.input, Len(trial.input)),
            Span(Fill(maxPacketSize(trial.size), 0),
                 maxPacketSize(trial.size))))
    /\ UNCHANGED << framerVars, routerVars, nodeVars >>

\* publish up to its createPacket call, built being what buildFrame
\* returned: the packet span and the Error that publish has at that point.
Packetized(built, txPacket, MaxPacketSize) ==
    IF built.err # "OK"
    THEN [err |-> built.err, data |-> txPacket, length |-> 0]
    ELSE createPacket(Span(built.data, built.length),
                      Span(txPacket, MaxPacketSize))

\* Node<Transport, P, MaxHandlers>::publish(9, 0xAABBCCDD, payload) of a
\* node of protocol version 1, up to its createPacket call.
SizedPublish ==
    /\ trial.op = "publish"
    /\ ~trial.done
    /\ TrialPacket(Packetized(
            buildFrame(1, 9, << 43707, 52445 >>,
                       Span(trial.input, Len(trial.input)),
                       Span(Fill(maxFrameSize(trial.size), 0),
                            maxFrameSize(trial.size))),
            Fill(maxPacketSize(trial.size), 0),
            maxPacketSize(trial.size)))
    /\ UNCHANGED << framerVars, routerVars, nodeVars >>

\* ------------------------------------ writes and reads at the buffer's end
\* One scalar is written and one is read after some bytes already written
\* and read, in buffers with and without room for it.

\* The scalar written, one of each type.
CursorItems ==
    { << "u8", 165 >>, << "i8", -1 >>, << "bool", TRUE >>,
      << "u16", 258 >>, << "i16", -1234 >>,
      << "u32", << 4386, 13124 >> >>, << "i32", -12345678 >>,
      << "u64", << 258, 772, 1286, 1800 >> >>,
      << "i64", << -1, 65535, 65535, 65535 >> >> }

\* The length of a buffer: none to one byte more than the widest scalar.
CursorLengths == 0 .. SizeOf("u64") + 1

\* The calls: the item, the writer's span, the reader's span, and the
\* number of bytes written and read before.  A span that is not null is of
\* bytes of one value.
CursorCalls ==
    { << item, out, in, before >> :
        item \in CursorItems,
        out \in { Span(Fill(n, 0), n) : n \in CursorLengths }
                    \cup { NullSpan(0), NullSpan(4) },
        in \in { Span(Fill(n, b), n) : n \in CursorLengths, b \in { 1, 2 } }
                    \cup { NullSpan(0), NullSpan(4) },
        before \in { 0, 1, 3 } }

\* The caller's record: the writer and the reader before and after the call.
CursorMoved(w0, w1, r0, r1) ==
    trial' = [trial EXCEPT !.done = TRUE,
                           !.out = [was |-> w0, now |-> w1],
                           !.dec = [was |-> r0, now |-> r1]]

\* w.write(value) on the writer w0 and r.read(out) on the reader r0.
CursorCall(item, w0, r0) ==
    CursorMoved(w0, WriterWrite(w0, item[1], item[2]),
                r0, ReaderRead(r0, item[1]))

\* Writer w(out); Reader r(in); before bytes written and read with
\* writeArray and readArray; then the write and the read.
WriteReadAtEnd ==
    /\ trial.op = "cursor"
    /\ ~trial.done
    /\ CursorCall(trial.input[1],
                  writeArray(NewWriter(trial.input[2]), "u8",
                             Fill(trial.input[4], 7), 0),
                  readArray(NewReader(trial.input[3]), "u8", trial.input[4],
                            0, << >>))
    /\ UNCHANGED << framerVars, routerVars, nodeVars >>

\* --------------------------------------- output buffers of every size
\* cobsEncode2 and createPacket are given output buffers from none at all
\* to more than the encoding needs.

\* The second inputs of cobsEncode2.
SecondInputs == { << >>, << 0 >>, << 7, 0, 0, 9 >> }

\* The first inputs: short ones, and ones that end on or near a full block.
FirstInputs ==
    ByteSeqs(FillBytes, MaxPayloadSize - 1)
        \cup { Fill(253, 1), Fill(254, 1), Fill(253, 1) \o << 0 >>,
               Fill(249, 255), Fill(250, 255) }

\* The calls: the two inputs and the capacity of the output, which is up to
\* three bytes less and two bytes more than the encoding needs.
CappedCalls ==
    { << a, b, Len(a) + Len(b) + cobsMaxOverhead(Len(a) + Len(b)) + 1 - less >> :
        a \in FirstInputs, b \in SecondInputs, less \in 0 .. MaxPayloadSize + 1 }

\* uint8_t out[capacity], not initialised, and size_t outLen = 77.
CappedOutput(capacity) == Fill(capacity, 170)

\* The caller's record: what cobsEncode2 returned for the capacity given and
\* for a large one, and what createPacket did with a packet span of the
\* capacity given, next to cobsEncode2 on what createPacket encodes.
Capped(small, ample, pkt, pktSmall, pktAmple) ==
    trial' = [trial EXCEPT !.done = TRUE,
                           !.out = small,
                           !.dec = ample,
                           !.payload = [pkt |-> pkt, small |-> pktSmall,
                                        ample |-> pktAmple]]

\* cobsEncode2(a, b, out, capacity, outLen) and createPacket(a, packet) with
\* packet.length = capacity.
CappedEncode(a, b, crcBytes, capacity) ==
    Capped(cobsEncode2(a, Len(a), b, Len(b), CappedOutput(capacity), capacity,
                       77),
           cobsEncode2(a, Len(a), b, Len(b), Fill(kScratchSize, 0),
                       kScratchSize, 77),
           createPacket(Span(a, Len(a)),
                        Span(CappedOutput(capacity), capacity)),
           cobsEncode2(a, Len(a), crcBytes, 4, CappedOutput(capacity),
                       capacity, 77),
           cobsEncode2(a, Len(a), crcBytes, 4, Fill(kScratchSize, 0),
                       kScratchSize, 77))

EncodeCapped ==
    /\ trial.op = "capped"
    /\ ~trial.done
    /\ CappedEncode(trial.input[1], trial.input[2],
                    write_u32_be(crc32_iso_hdlc(trial.input[1],
                                                Len(trial.input[1]))),
                    trial.input[3])
    /\ UNCHANGED << framerVars, routerVars, nodeVars >>

\* ------------------------------------------ a stream polled in pieces
\* A node with a handler for id 7 that returns OK and one for id 9 that
\* returns an error gets a stream of bytes in three pieces, some of them
\* empty, and polls after each; a node in the same state gets the stream
\* whole and polls once.

\* The packet Node::publish(msgId, msgHash, payload) puts on the wire.
WireOf(msgId, msgHash, payload) ==
    SpanBytes(PacketOf(SpanBytes(buildFrame(1, msgId, msgHash,
                                            Span(payload, Len(payload)),
                                            FrameBuf))))

\* Packets for the two handlers and for an id without one, one with a byte
\* changed on the wire, and bytes that are no packet.
Wire7 == WireOf(7, << 43707, 52445 >>, << >>)
Wire9 == WireOf(9, << 43707, 52445 >>, << 16, 0, 32 >>)
Wire10 == WireOf(10, << 0, 0 >>, << 9 >>)
WireBad == [Wire9 EXCEPT ![3] = FlipBit(@, 0)]
WireJunk == << 5, 9 >>

ChunkStreams ==
    { Wire9, Wire7 \o Wire9, Wire9 \o Wire9, WireJunk \o Wire7 \o Wire7,
      Wire10 \o Wire9, WireBad \o Wire7, << 0 >> \o Wire9 \o << 0, 0 >>,
      Fill(kMaxPacketSize + 1, 1) \o << 0 >> \o Wire7 }

\* The calls: the stream and the two places where it is cut.
ChunkCalls ==
    { << stream, k1, k2 >> :
        stream \in ChunkStreams,
        k1 \in 0 .. 2 * kMaxPacketSize + 4, k2 \in 0 .. 2 * kMaxPacketSize + 4 }

ChunkNode ==
    [NewNode(1, 0) EXCEPT
        !.handlers =
            registerHandler(registerHandler(NoHandlers, 7, "sink", "raw",
                                            "OK").table,
                            9, "sinkErr", "raw", "TransportError").table]

\* The log of a poll that began after off bytes of the stream, its entries
\* numbered by the bytes of the stream.
RECURSIVE ShiftLog(_, _, _)
ShiftLog(log, off, k) ==
    IF k > Len(log) THEN << >>
    ELSE << [log[k] EXCEPT !.at = @ + off] >> \o ShiftLog(log, off, k + 1)

\* The caller's tally once a poll of the next piece has yielded r: acc is
\* [n, off, errors, log, polls], the node, the bytes given so far, the sum
\* of the values returned, the dispatches and the number of dispatches of
\* each poll.
ChunkPolled(acc, r) ==
    [n |-> [acc.n EXCEPT !.rxBuffer = r.st.buf, !.rxIndex = r.st.idx],
     off |-> acc.off + r.reads,
     errors |-> acc.errors + r.st.errors,
     log |-> acc.log \o ShiftLog(r.st.log, acc.off, 1),
     polls |-> Append(acc.polls, Len(r.st.log))]

\* The pieces from number i on are put into the empty ring one at a time,
\* with a poll after each.
RECURSIVE ChunkPolls(_, _, _)
ChunkPolls(acc, pieces, i) ==
    IF i > Len(pieces) THEN acc
    ELSE CHOOSE r \in
            { ChunkPolls(a, pieces, i + 1) :
                a \in { ChunkPolled(acc, poll(acc.n, pieces[i])) } } : TRUE

NoTally == [n |-> ChunkNode, off |-> 0, errors |-> 0, log |-> << >>,
            polls |-> << >>]

\* The caller's record of the polls in pieces and of the poll of the whole.
ChunksPolled(pieces, whole) ==
    trial' = [trial EXCEPT !.done = TRUE,
                           !.out = pieces.log,
                           !.length = pieces.errors,
                           !.payload = pieces.polls,
                           !.dec = whole.log,
                           !.decLength = whole.errors]

\* The stream cut at k1 and k2.
Pieces(stream, k1, k2) ==
    << SubSeq(stream, 1, k1), SubSeq(stream, k1 + 1, k2),
       SubSeq(stream, k2 + 1, Len(stream)) >>

PollChunks ==
    /\ trial.op = "chunks"
    /\ ~trial.done
    /\ ChunksPolled(ChunkPolls(NoTally,
                               Pieces(trial.input[1], trial.input[2],
                                      trial.input[3]),
                               1),
                    ChunkPolls(NoTally, << trial.input[1] >>, 1))
    /\ UNCHANGED << framerVars, routerVars, nodeVars >>

CodecInit ==
    /\ \/ \E input \in CodecInputs : trial = Trial("cobs", 0, input)
       \/ \E f \in SizedFrames : trial = Trial("createPacket", f[1], f[2])
       \/ \E f \in SizedPayloads : trial = Trial("publish", f[1], f[2])
       \/ \E region \in EncodedRegions : trial = Trial("decode", 0, region)
       \/ \E input \in CrcInputs : trial = Trial("crc", 0, input)
       \/ \E c \in BuildFrameCalls : trial = Trial("buildFrame", 0, c)
       \/ \E items \in MarshalInputs : trial = Trial("marshal", 0, items)
       \/ \E buf \in BoolBuffers : trial = Trial("readBool", 0, buf)
       \/ \E c \in PublishMsgCalls : trial = Trial("publishMsg", 0, c)
       \/ \E c \in CappedCalls : c[3] >= 0 /\ trial = Trial("capped", 0, c)
       \/ \E c \in CursorCalls :
            /\ c[4] <= c[2].length /\ c[4] <= c[3].length
            /\ (~c[2].null /\ ~c[3].null) \/ c[4] = 0
            /\ trial = Trial("cursor", 0, c)
       \/ \E c \in ChunkCalls :
            /\ c[2] <= c[3] /\ c[3] <= Len(c[1])
            /\ trial = Trial("chunks", 0, c)
    /\ FramerAt(Fill(kMaxPacketSize, 0))
    /\ RouterAt(1)
    /\ NodesAt(1, 0)

CodecNext ==
    \/ RoundTrip
    \/ SizedCreatePacket
    \/ SizedPublish
    \/ Decode
    \/ Checksum
    \/ BuildFrame
    \/ Marshal
    \/ ReadBool
    \/ PublishMsg
    \/ PollChunks
    \/ EncodeCapped
    \/ WriteReadAtEnd

SpecCodec == CodecInit /\ [][CodecNext]_vars

\* ------------------------------------------------- properties of the Framer

\* The last feed gave the callback one frame, on its last byte: the frame the
\* packet was made of.
DeliveredOnce ==
    /\ cur.calls = << cur.frame >>
    /\ cur.callAt = << Len(cur.input) >>

\* Every processByte of the last feed but the last one returned OK.
OKBeforeLast ==
    \A k \in 1 .. Len(cur.results) - 1 : cur.results[k] = "OK"

\* Whether byte number i of a COBS encoding is a code byte, walking the codes
\* from the one at byte number at.
RECURSIVE IsCodeByte(_, _, _)
IsCodeByte(encoded, i, at) ==
    IF at >= i THEN at = i
    ELSE IF encoded[at + 1] = 0 THEN FALSE
    ELSE IsCodeByte(encoded, i, at + encoded[at + 1])

\* C1 (as amended): the bytes createPacket made of a frame that fits, fed one
\* at a time to a framer whose receive index is 0 (a fresh one included) and
\* that has a callback, return OK for every byte before the final 0x00 and
\* for that one what the callback returns (OK if it returns OK); the callback
\* is invoked exactly once, on the final 0x00, with a span equal to the frame.
FramerRoundTrip ==
    (cur.kind = "packet" /\ cur.startIdx = 0 /\ cur.thunk)
        => /\ Len(cur.results) = Len(cur.input)
           /\ Last(cur.input) = 0
           /\ OKBeforeLast
           /\ Last(cur.results) = cur.ret
           /\ DeliveredOnce

\* A frame of the largest size, zeros among its bytes, made the round trip
\* through a fresh framer.
FramerRoundTripWitness ==
    /\ cur.kind = "packet"
    /\ feeds = 1
    /\ cur.startIdx = 0
    /\ cur.thunk
    /\ cur.ret = "OK"
    /\ Len(cur.frame) = 12
    /\ cur.frame[7] = 0
    /\ cur.calls = << cur.frame >>
    /\ Last(cur.results) = "OK"

\* C1 as stated: every byte of the round trip returns OK.
FramerRoundTripAllOK ==
    (cur.kind = "packet" /\ cur.startIdx = 0 /\ cur.thunk)
        => /\ \A k \in 1 .. Len(cur.results) : cur.results[k] = "OK"
           /\ DeliveredOnce

NextDelimiter == CHOOSE k \in 1 .. Len(cur.input) :
                    cur.input[k] = 0 /\ \A j \in 1 .. k - 1 : cur.input[j] # 0

\* C5 (as amended): one bit of the encoded region of a packet is flipped and
\* the bytes fed to an idle framer.  If the flipped byte is still non-zero,
\* the final delimiter is the next one: it returns CrcMismatch when the byte
\* is a data byte, CrcMismatch or CobsDecodeFailed when it is a code byte,
\* and the callback is not invoked.  If the flipped byte has become 0x00 it
\* is the next delimiter: it returns OK when it is the first byte, and
\* FrameHeaderSize or CobsDecodeFailed when fewer than five bytes precede it,
\* in both cases without a callback.
FramerTamper ==
    cur.kind = "tampered"
        => /\ cur.input[cur.pos + 1] # 0
                => /\ NextDelimiter = Len(cur.input)
                   /\ OKBeforeLast
                   /\ Last(cur.results) \in { "CrcMismatch", "CobsDecodeFailed" }
                   /\ ~IsCodeByte(cur.input, cur.pos, 0)
                        => Last(cur.results) = "CrcMismatch"
                   /\ cur.calls = << >>
           /\ cur.input[cur.pos + 1] = 0
                => /\ NextDelimiter = cur.pos + 1
                   /\ cur.pos = 0 => cur.results[1] = "OK"
                   /\ cur.pos \in 1 .. 4
                        => cur.results[cur.pos + 1]
                                \in { "FrameHeaderSize", "CobsDecodeFailed" }
                   /\ cur.pos < 5 => cur.pos + 1 \notin
                            { cur.callAt[j] : j \in 1 .. Len(cur.callAt) }

\* A flipped bit in a data byte of the largest packet was met with
\* CrcMismatch.
FramerTamperWitness ==
    /\ cur.kind = "tampered"
    /\ Len(cur.frame) = 12
    /\ cur.input[cur.pos + 1] # 0
    /\ ~IsCodeByte(cur.input, cur.pos, 0)
    /\ Last(cur.results) = "CrcMismatch"
    /\ cur.calls = << >>

\* C5 as stated: whichever bit is flipped, the next delimiter returns
\* CrcMismatch or CobsDecodeFailed and the callback is never invoked.
FramerTamperAlways ==
    cur.kind = "tampered"
        => /\ cur.results[NextDelimiter]
                \in { "CrcMismatch", "CobsDecodeFailed" }
           /\ cur.calls = << >>

\* Whether every byte of s is zero, and whether none is.
AllZero(s) == \A k \in 1 .. Len(s) : s[k] = 0
NoneZero(s) == \A k \in 1 .. Len(s) : s[k] # 0

FramerIdle ==
    (cur.kind = "bytes" /\ cur.startIdx = 0 /\ AllZero(cur.input))
        => /\ \A k \in 1 .. Len(cur.input) :
                cur.results[k] = "OK" /\ cur.idxs[k] = 0
           /\ cur.calls = << >>
           /\ rxBuffer = cur.startBuf
           /\ rxIndex = 0

\* Three delimiters were fed to a framer that was idle after a delivery.
FramerIdleWitness ==
    /\ cur.kind = "bytes"
    /\ cur.input = << 0, 0, 0 >>
    /\ cur.startIdx = 0
    /\ cur.thunk
    /\ cur.startBuf \notin { Fill(kMaxPacketSize, 0), Fill(kMaxPacketSize, 255) }
    /\ cur.results = << "OK", "OK", "OK" >>

\* ------------------------------------------------- properties of the Router

\* The slots in use for msgId.
SlotsFor(msgId) ==
    { i \in 1 .. MaxHandlers : handlers[i].used /\ handlers[i].msgId = msgId }

\* The frame given to onPacket is the one buildFrame made.
AsBuilt == rlast.kind = "dispatch" /\ rlast.change = "none"

\* C8: buildFrame succeeds for every payload that fits, and onPacket on the
\* frame it made invokes the raw handler registered for the id exactly once,
\* with the payload and the hash given to buildFrame, invokes no other
\* handler and returns what the handler returned.
RouterDispatch ==
    /\ rlast.kind = "unbuilt" => Len(rlast.payload) > MaxPayloadSize
    /\ AsBuilt
        => \A i \in SlotsFor(rlast.msgId) :
                handlers[i].cbThunk = "raw"
                    => /\ rlast.calls =
                            << [cbObj |-> handlers[i].cbObj, cbThunk |-> "raw",
                                payload |-> rlast.payload,
                                msgHash |-> rlast.msgHash] >>
                       /\ rlast.err = handlers[i].ret

\* With two handlers registered, the raw one that returns an error was given
\* the four-byte payload and the hash of id 7, and onPacket returned its
\* error.
RouterDispatchWitness ==
    /\ AsBuilt
    /\ rlast.msgId = 7
    /\ rlast.msgHash = << 4660, 22136 >>
    /\ rlast.payload = << 18, 52, 86, 120 >>
    /\ \A i \in 1 .. MaxHandlers : handlers[i].used
    /\ \E i \in SlotsFor(7) : handlers[i].cbObj = "capErr"
    /\ Len(rlast.calls) = 1
    /\ rlast.err = "TransportError"

\* The frame given to onPacket has a whole header.
HasHeader ==
    rlast.kind = "dispatch" /\ ~rlast.frame.null
        /\ rlast.frame.length >= 8

\* C9: onPacket returns MsgVersionMismatch for a frame whose version byte is
\* not expectedVersion, MsgLengthMismatch for a frame (of that version) whose
\* len field disagrees with the size of its payload, MsgIdUnknown for a
\* well-formed frame whose msg_id has no handler; no handler is invoked in
\* any of these cases.
RouterRejects ==
    HasHeader
        => /\ rlast.frame.data[1] # expectedVersion
                => rlast.err = "MsgVersionMismatch" /\ rlast.calls = << >>
           /\ (rlast.frame.data[1] = expectedVersion
                /\ rlast.frame.length - 8
                        # rlast.frame.data[7] * 256 + rlast.frame.data[8])
                => rlast.err = "MsgLengthMismatch" /\ rlast.calls = << >>
           /\ (rlast.frame.data[1] = expectedVersion
                /\ rlast.frame.length - 8
                        = rlast.frame.data[7] * 256 + rlast.frame.data[8]
                /\ SlotsFor(rlast.frame.data[2]) = { })
                => rlast.err = "MsgIdUnknown" /\ rlast.calls = << >>

\* A frame one byte longer than its len field says, for an id that has a
\* handler, was rejected with MsgLengthMismatch.
RouterRejectsWitness ==
    /\ HasHeader
    /\ rlast.change = "extra"
    /\ rlast.payload = << 9, 8, 7 >>
    /\ SlotsFor(rlast.msgId) # { }
    /\ rlast.err = "MsgLengthMismatch"
    /\ rlast.calls = << >>

\* C10: for a frame as built whose id has a typed handler, a msg_hash other
\* than kMsgHash makes onPacket return MsgVersionMismatch without a call of
\* decode or of the handler; with the hash right, a payload decode rejects
\* (one shorter than four bytes) makes it return InvalidParameter without a
\* call of the handler; otherwise the handler is invoked once with the
\* decoded message, the big-endian value of the first four bytes.
RouterTyped ==
    AsBuilt
        => \A i \in SlotsFor(rlast.msgId) :
                handlers[i].cbThunk = "msg"
                    => IF rlast.msgHash # kMsgHash
                       THEN /\ rlast.err = "MsgVersionMismatch"
                            /\ rlast.decodes = 0
                            /\ rlast.calls = << >>
                       ELSE IF Len(rlast.payload) < 4
                       THEN /\ rlast.err = "InvalidParameter"
                            /\ rlast.calls = << >>
                       ELSE /\ rlast.decodes = 1
                            /\ rlast.calls =
                                << [cbObj |-> handlers[i].cbObj,
                                    cbThunk |-> "msg",
                                    msg |-> << rlast.payload[1] * 256
                                                + rlast.payload[2],
                                               rlast.payload[3] * 256
                                                + rlast.payload[4] >>] >>

\* The typed handler of id 10 was given 0x12345678.
RouterTypedWitness ==
    /\ AsBuilt
    /\ rlast.msgId = 10
    /\ rlast.msgHash = kMsgHash
    /\ rlast.err = "OK"
    /\ Len(rlast.calls) = 1
    /\ rlast.calls[1].cbThunk = "msg"
    /\ rlast.calls[1].msg = << 4660, 22136 >>

\* -------------------------------------------------- properties of the Node

\* The slots of node n that hold a handler for msgId.
NodeSlotsFor(n, msgId) ==
    { i \in 1 .. MaxHandlers :
        node[n].handlers[i].used /\ node[n].handlers[i].msgId = msgId }

\* The last poll was one of a node whose framer was idle, whose ring held
\* the packet of one publish of its peer that returned OK and nothing else,
\* and whose expectedVersion is that of its peer.
OnePublished ==
    /\ plast.node # ""
    /\ plast.startIdx = 0
    /\ Len(plast.sent) = 1
    /\ plast.sent[1].kind = "publish"
    /\ node[Peer(plast.node)].expectedVersion
            = node[plast.node].expectedVersion

\* The one call of the handler in slot i of the polling node that the
\* published message calls for.
ThePublishedCall(i) ==
    << [cbObj |-> node[plast.node].handlers[i].cbObj, cbThunk |-> "raw",
        payload |-> plast.sent[1].payload,
        msgHash |-> plast.sent[1].msgHash] >>

\* C2, as amended: after a publish of a payload that fits has returned OK,
\* the next poll of the peer (same version, idle framer, nothing else on
\* the link) invokes the peer's handler for the id exactly once, with the
\* hash and the bytes of the payload published, and no other handler; poll
\* returns 0 when that handler returns OK and 1 when it returns an error.
NodeEndToEnd ==
    OnePublished
        => /\ Len(plast.sent[1].payload) <= MaxPayloadSize
           /\ \A i \in NodeSlotsFor(plast.node, plast.sent[1].msgId) :
                /\ CallsOf(plast.log, 1) = ThePublishedCall(i)
                /\ plast.errors
                    = IF node[plast.node].handlers[i].ret = "OK" THEN 0 ELSE 1

\* B with the sink for id 9 has polled after A published [0x10, 0x00, 0x20]
\* with hash 0xAABBCCDD: the sink was called once and poll returned 0.
NodeEndToEndWitness ==
    /\ OnePublished
    /\ plast.node = "B"
    /\ plast.sent[1].payload = << 16, 0, 32 >>
    /\ plast.sent[1].msgHash = << 43707, 52445 >>
    /\ \E i \in NodeSlotsFor("B", 9) :
            /\ node["B"].handlers[i].ret = "OK"
            /\ CallsOf(plast.log, 1) = ThePublishedCall(i)
    /\ plast.errors = 0

\* C2 as it is written: the handler is invoked once with what was
\* published, and poll reports zero errors whatever the handler returns.
NodeEndToEndZeroErrors ==
    OnePublished
        => \A i \in NodeSlotsFor(plast.node, plast.sent[1].msgId) :
                /\ CallsOf(plast.log, 1) = ThePublishedCall(i)
                /\ plast.errors = 0

\* The frame of entry e of a poll's log is one a handler may be given.
Deliverable(e) ==
    /\ e.crc = write_u32_be(crc32_iso_hdlc(e.frame, Len(e.frame)))
    /\ Len(e.frame) >= 8
    /\ e.frame[1] = node[plast.node].expectedVersion
    /\ Len(e.frame) = 8 + read_u16_be(e.frame, 6)

\* C3: in every poll, a frame a handler was invoked for was followed in the
\* decoded packet by its big-endian CRC-32, is at least 8 bytes long, has
\* the node's expectedVersion in its first byte and is as long as 8 plus
\* the big-endian u16 in its bytes 6 and 7; no handler is invoked for a
\* frame that fails one of these.
NodeDelivered ==
    \A k \in 1 .. Len(plast.log) :
        plast.log[k].calls # << >> => Deliverable(plast.log[k])

\* A poll in which one frame came through the CRC check and was turned down
\* by the router without a call, and another one was given to a handler.
NodeDeliveredWitness ==
    \E j, k \in 1 .. Len(plast.log) :
        /\ plast.log[j].calls = << >>
        /\ ~Deliverable(plast.log[j])
        /\ plast.log[k].calls # << >>

\* ----------------------------------------- properties of the handler table

\* The slots of a table in use for msgId.
UsedFor(table, msgId) ==
    { i \in 1 .. Len(table) : table[i].used /\ table[i].msgId = msgId }

\* The slots of a table in use.
UsedSlots(table) == { i \in 1 .. Len(table) : table[i].used }

\* C11: after any sequence of registerHandler calls, raw or typed, returning
\* OK or not, no two slots in use hold the same msg_id and no more than
\* MaxHandlers slots are in use.
TableOnePerId ==
    /\ \A i, j \in UsedSlots(handlers) :
            handlers[i].msgId = handlers[j].msgId => i = j
    /\ Cardinality(UsedSlots(handlers)) <= MaxHandlers
    /\ Len(handlers) = MaxHandlers

\* The table was full, and the last call registered a typed receiver for an
\* id that had a slot.
TableOnePerIdWitness ==
    /\ rreg.kind = "reg"
    /\ UsedSlots(rreg.before) = 1 .. MaxHandlers
    /\ UsedFor(rreg.before, rreg.msgId) # { }
    /\ rreg.err = "OK"
    /\ \E i \in UsedSlots(handlers) :
            handlers[i].cbThunk = "msg" /\ handlers[i].msgId = rreg.msgId

\* The last dispatch went to the handler h and to no other: every call made
\* was one of h's object through h's thunk; a raw h was called once and its
\* value returned, a typed h was called once when the hash is its message's.
WentTo(h) ==
    /\ \A k \in 1 .. Len(rlast.calls) :
            rlast.calls[k].cbObj = h.cbObj /\ rlast.calls[k].cbThunk = h.cbThunk
    /\ h.cbThunk = "raw" => Len(rlast.calls) = 1 /\ rlast.err = h.ret
    /\ (h.cbThunk = "msg" /\ rlast.msgHash = kMsgHash)
            => Len(rlast.calls) = 1 /\ rlast.err = h.ret
    /\ (h.cbThunk = "msg" /\ rlast.msgHash # kMsgHash)
            => rlast.calls = << >> /\ rlast.err = "MsgVersionMismatch"

\* C12: registerHandler for a msg_id that has a slot returns OK, also when
\* the table is full; the slots in use are the same as before and every
\* other slot is as it was; a frame for the msg_id afterwards invokes the
\* handler just registered and not the one it replaced.
TableReplaces ==
    (rreg.kind = "reg" /\ UsedFor(rreg.before, rreg.msgId) # { })
        => /\ rreg.err = "OK"
           /\ UsedSlots(handlers) = UsedSlots(rreg.before)
           /\ \A i \in 1 .. MaxHandlers :
                i \notin UsedFor(rreg.before, rreg.msgId)
                    => handlers[i] = rreg.before[i]
           /\ (AsBuilt /\ rlast.msgId = rreg.msgId)
                => WentTo([cbObj |-> rreg.cbObj, cbThunk |-> rreg.cbThunk,
                           ret |-> rreg.ret])

\* On a full table a typed receiver took the place of a raw one of another
\* object, and the frame for the id went to the typed one.
TableReplacesWitness ==
    /\ rreg.kind = "reg"
    /\ UsedSlots(rreg.before) = 1 .. MaxHandlers
    /\ \E i \in UsedFor(rreg.before, rreg.msgId) :
            rreg.before[i].cbThunk = "raw" /\ rreg.before[i].cbObj # rreg.cbObj
    /\ rreg.cbThunk = "msg"
    /\ AsBuilt
    /\ rlast.msgId = rreg.msgId
    /\ Len(rlast.calls) = 1
    /\ rlast.calls[1].cbObj = rreg.cbObj

\* C13: when every slot is in use and none for msg_id, registerHandler
\* returns InvalidParameter and the table is as before: a frame for an id
\* registered before goes to its handler, a frame for the id turned down
\* yields MsgIdUnknown and no call.
TableFull ==
    (rreg.kind = "reg" /\ UsedSlots(rreg.before) = 1 .. MaxHandlers
        /\ UsedFor(rreg.before, rreg.msgId) = { })
        => /\ rreg.err = "InvalidParameter"
           /\ handlers = rreg.before
           /\ AsBuilt
                => /\ \A i \in UsedFor(rreg.before, rlast.msgId) :
                        WentTo(rreg.before[i])
                   /\ rlast.msgId = rreg.msgId
                        => rlast.err = "MsgIdUnknown" /\ rlast.calls = << >>

\* A registration was turned down by a full table and the frame given
\* afterwards, for an id registered before, was handled.
TableFullWitness ==
    /\ rreg.kind = "reg"
    /\ rreg.err = "InvalidParameter"
    /\ AsBuilt
    /\ rlast.msgId # rreg.msgId
    /\ Len(rlast.calls) = 1

\* The call of handler h that the message of entry e of a ring calls for.
CallFor(h, e) ==
    [cbObj |-> h.cbObj, cbThunk |-> "raw", payload |-> e.payload,
     msgHash |-> e.msgHash]

\* The numbers of the bytes of the last poll that processByte did not
\* return OK for.
PollErrors == { k \in 1 .. Len(plast.results) : plast.results[k] # "OK" }

\* The last poll was one of an idle node whose ring held first a packet the
\* node turns down (of a peer's frame, for an id without a handler, or
\* changed by noise) and after it the packet of a publish that returned OK,
\* for an id the node has a handler for.
BadThenGood ==
    /\ plast.node # ""
    /\ plast.startIdx = 0
    /\ Len(plast.sent) \in { 2, 3 }
    /\ Len(plast.sent) = 3 => plast.sent[2].kind = "noise"
    /\ \/ plast.sent[2].kind = "noise"
       \/ plast.sent[1].kind = "raw"
       \/ /\ plast.sent[1].kind = "publish"
          /\ NodeSlotsFor(plast.node, plast.sent[1].msgId) = { }
    /\ plast.sent[1].kind \in { "raw", "publish" }
    /\ Last(plast.sent).kind = "publish"
    /\ NodeSlotsFor(plast.node, Last(plast.sent).msgId) # { }

\* C14: with a rejected packet and then a valid one in the transport, one
\* poll reads every byte, counts the bad packet as an error (as one error
\* when no noise has cut it in two) and hands the valid packet to its
\* handler, and to no other, on the last byte read.
PollGoesOn ==
    BadThenGood
        => /\ Len(plast.results) = Len(plast.input)
           /\ plast.errors = Cardinality(PollErrors)
           /\ PollErrors \ { Len(plast.results) } # { }
           /\ plast.sent[2].kind # "noise"
                => Cardinality(PollErrors \ { Len(plast.results) }) = 1
           /\ \A i \in NodeSlotsFor(plast.node, Last(plast.sent).msgId) :
                /\ CallsOf(plast.log, 1)
                    = << CallFor(node[plast.node].handlers[i],
                                 Last(plast.sent)) >>
                /\ Last(plast.log).at = Len(plast.input)
                /\ Last(plast.results) = node[plast.node].handlers[i].ret

\* B polled a ring that held a published packet changed by noise and then a
\* good one: one CrcMismatch, and then the sink's call.
PollGoesOnWitness ==
    /\ BadThenGood
    /\ plast.sent[1].kind = "publish"
    /\ plast.sent[2].kind = "noise"
    /\ \E k \in PollErrors : plast.results[k] = "CrcMismatch"
    /\ plast.errors = 1
    /\ Len(CallsOf(plast.log, 1)) = 1

\* The calls node n's handlers are to get for the messages from number k on
\* of those the peer's publish returned OK for.
RECURSIVE CallsDue(_, _)
CallsDue(n, k) ==
    IF k > Len(published[Peer(n)]) THEN << >>
    ELSE LET e == published[Peer(n)][k]
             i == FindUsed(node[n].handlers, e.msgId, 1)
         IN  (IF i = 0 THEN << >>
              ELSE << CallFor(node[n].handlers[i], e) >>)
             \o CallsDue(n, k + 1)

\* C15 as it is written: a publish that returns an error has left the
\* peer's ring as it was, and so, whenever a node has read all there was to
\* read, its handlers have got the messages of the publishes of its peer
\* that returned OK, each of them once and whole.
PublishAllOrNothing ==
    /\ publast.err # "OK" => publast.after = publast.before
    /\ \A n \in Nodes :
            (link[n] = << >> /\ node[n].rxIndex = 0)
                => delivered[n] = CallsDue(n, 1)

DuplexFifo ==
    \A n \in Nodes :
        /\ Len(delivered[n]) <= Len(CallsDue(n, 1))
        /\ delivered[n] = SubSeq(CallsDue(n, 1), 1, Len(delivered[n]))
        /\ link[n] = << >> => delivered[n] = CallsDue(n, 1)

\* Both sinks have been called, A's once and B's twice with the two messages
\* of A in the order A published them, B's publish having come between
\* those of A.
DuplexFifoWitness ==
    /\ Len(delivered["A"]) = 1
    /\ Len(delivered["B"]) = 2
    /\ delivered["B"][1].payload # delivered["B"][2].payload
    /\ delivered["B"] = CallsDue("B", 1)
    /\ plast.node = "A"
    /\ Len(plast.sent) = 1
    /\ publast.node = "A"

\* ------------------------------- properties of the stateless functions

\* A call of createPacket, alone or from publish, has been made.
Packetizing == trial.done /\ trial.op \in { "createPacket", "publish" }

\* round_trip has been made.
RoundTripped == trial.done /\ trial.op = "cobs"

\* C18: createPacket of a frame of at most maxFrameSize(P) bytes into a
\* buffer of maxPacketSize(P) bytes returns OK, and so does the createPacket
\* call of publish for a payload of at most P bytes, whatever the bytes.
SizingSuffices ==
    Packetizing => (trial.err = "OK" /\ trial.length <= maxPacketSize(trial.size))

\* C19: cobsEncode of any byte sequence into a large enough buffer succeeds,
\* and cobsDecodeInPlace of the encoded bytes succeeds and yields the
\* sequence again, length and bytes.
CobsRoundTrips ==
    RoundTripped =>
        /\ trial.ok
        /\ trial.decOk
        /\ trial.decLength = Len(trial.input)
        /\ trial.dec = trial.input

\* A sequence with a full block of non-zero bytes and a zero after it has
\* made the round trip.
CobsRoundTripsWitness ==
    /\ RoundTripped
    /\ trial.decOk
    /\ Len(trial.input) > 254
    /\ trial.out[1] = 255
    /\ \E i \in 255 .. Len(trial.input) : trial.input[i] = 0
    /\ trial.dec = trial.input

\* C20: every byte a successful cobsEncode or cobsEncode2 wrote is non-zero,
\* and a packet made by createPacket has one zero byte, its last.
WireZeroFree ==
    /\ (RoundTripped /\ trial.ok) =>
            \A i \in 1 .. trial.length : trial.out[i] # 0
    /\ (Packetizing /\ trial.ok) =>
            /\ trial.length = Len(trial.out)
            /\ trial.out[trial.length] = 0
            /\ \A i \in 1 .. trial.length - 1 : trial.out[i] # 0

\* createPacket has made a packet of more than one block of a frame that
\* has a zero byte in it.
WireZeroFreeWitness ==
    /\ Packetizing
    /\ trial.ok
    /\ trial.length > 255
    /\ \E i \in 1 .. Len(trial.input) : trial.input[i] = 0
    /\ trial.out[trial.length] = 0

\* The positions of the code bytes of an encoded region from position at
\* on, as the decoder's outer loop meets them; a code of 0 ends the walk.
RECURSIVE CodePositions(_, _)
CodePositions(region, at) ==
    IF at > Len(region) THEN { }
    ELSE IF region[at] = 0 THEN { at }
    ELSE { at } \cup CodePositions(region, at + region[at])

\* The groups of the region whose code is 0xFF.
FullGroups(region) ==
    Cardinality({ at \in CodePositions(region, 1) : region[at] = 255 })

\* The last group of the region has fewer data bytes than its code says.
CutShort(region) ==
    \E at \in CodePositions(region, 1) : at + region[at] - 1 > Len(region)

\* cobsDecodeInPlace has been called on a region of the caller's making.
DecodeTried == trial.done /\ trial.op = "decode"

\* C21: cobsDecodeInPlace returns false when a byte of the encoded region,
\* code or data, is 0x00, and when the last group has fewer data bytes than
\* its code says.
DecoderStrict ==
    (DecodeTried /\ (CutShort(trial.input)
                        \/ \E i \in 1 .. Len(trial.input) : trial.input[i] = 0))
        => ~trial.decOk

\* C22: the length cobsEncode produces for an input of n bytes is at most
\* n + 1 + ceil(n / 254).
CobsExpansion ==
    (RoundTripped /\ trial.ok) =>
        trial.length <= Len(trial.input) + 1 + cobsMaxOverhead(Len(trial.input))

\* An input of full blocks has been encoded to exactly that many bytes.
CobsExpansionWitness ==
    /\ RoundTripped
    /\ trial.ok
    /\ Len(trial.input) = 508
    /\ trial.length = 508 + 1 + cobsMaxOverhead(508)

\* C23 as stated: a successful decode of a region of e bytes yields e - 1
\* bytes less one for each group whose code is 0xFF.
DecodedLengthStated ==
    (DecodeTried /\ trial.decOk) =>
        trial.decLength = Len(trial.input) - 1 - FullGroups(trial.input)

\* The region's last group, one there is, has a code other than 0xFF.
EndsInShortGroup(region) ==
    \E at \in CodePositions(region, 1) :
        at + region[at] > Len(region) /\ region[at] # 255

\* C23: a successful decode of a region of e bytes yields e bytes less one
\* for each group whose code is 0xFF and less one more when the last group's
\* code is not 0xFF, as it is in all that cobsEncode produces.
DecodedLength ==
    /\ (DecodeTried /\ trial.decOk) =>
            trial.decLength = Len(trial.input) - FullGroups(trial.input)
                                - (IF EndsInShortGroup(trial.input) THEN 1 ELSE 0)
    /\ (RoundTripped /\ trial.ok) =>
            /\ EndsInShortGroup(trial.out)
            /\ trial.decOk
            /\ trial.decLength = trial.length - 1 - FullGroups(trial.out)

\* A region of two full blocks and a short last group has been decoded.
DecodedLengthWitness ==
    /\ DecodeTried
    /\ trial.decOk
    /\ FullGroups(trial.input) = 2
    /\ EndsInShortGroup(trial.input)
    /\ trial.decLength = Len(trial.input) - 3

\* C24: cobsEncode of the empty input yields 01, of 00 yields 01 01, and of
\* 11 22 00 33 yields 03 11 22 02 33.
CobsVectors ==
    RoundTripped =>
        /\ trial.input = << >> => (trial.ok /\ trial.out = << 1 >>)
        /\ trial.input = << 0 >> => (trial.ok /\ trial.out = << 1, 1 >>)
        /\ trial.input = << 17, 34, 0, 51 >>
                => (trial.ok /\ trial.out = << 3, 17, 34, 2, 51 >>)

\* 11 22 00 33 has been encoded.
CobsVectorsWitness ==
    /\ RoundTripped
    /\ trial.ok
    /\ trial.input = << 17, 34, 0, 51 >>
    /\ trial.length = 5

\* C25: crc32_iso_hdlc of no bytes is 0x00000000 and of the ASCII bytes
\* "123456789" is 0xCBF43926.
CrcVectors ==
    (trial.done /\ trial.op = "crc") =>
        /\ trial.input = << >> => trial.crc = << 0, 0 >>
        /\ trial.input = << 49, 50, 51, 52, 53, 54, 55, 56, 57 >>
                => trial.crc = << 52212, 14630 >>

\* The CRC of "123456789" has been computed.
CrcVectorsWitness ==
    /\ trial.done
    /\ trial.op = "crc"
    /\ Len(trial.input) = 9
    /\ trial.crc # << 0, 0 >>

\* buildFrame has been called.
BuildTried == trial.done /\ trial.op = "buildFrame"

\* The arguments are ones buildFrame is to turn down.
BuildInvalid(c) ==
    \/ c.outFrame.null
    \/ c.payload.null /\ c.payload.length > 0
    \/ c.payload.length > 65535
    \/ c.outFrame.length < 8 + c.payload.length

\* The frame of the call c, byte by byte: version, msg_id, msg_hash and len
\* big-endian, then the payload.
FrameFor(c) ==
    << c.version, c.msgId,
       c.msgHash[1] \div 256, c.msgHash[1] % 256,
       c.msgHash[2] \div 256, c.msgHash[2] % 256,
       c.payload.length \div 256, c.payload.length % 256 >>
        \o SubSeq(c.payload.data, 1, c.payload.length)

\* C28: buildFrame returns InvalidParameter and leaves the output span's
\* length and bytes alone when the output data is null, the payload data is
\* null with a length above 0, the payload is longer than 65535 bytes or the
\* capacity is below 8 + payload.length; otherwise it returns OK, sets the
\* length to 8 + payload.length and writes the header and the payload.
BuildFrameValidates ==
    BuildTried =>
        IF BuildInvalid(trial.input)
        THEN /\ trial.err = "InvalidParameter"
             /\ trial.length = trial.input.outFrame.length
             /\ trial.out = trial.input.outFrame.data
        ELSE /\ trial.err = "OK"
             /\ trial.length = 8 + trial.input.payload.length
             /\ SubSeq(trial.out, 1, trial.length) = FrameFor(trial.input)
             /\ Len(trial.out) = Len(trial.input.outFrame.data)

\* A call with too small a capacity for its payload, but room for a header,
\* has been turned down.
BuildFrameValidatesWitness ==
    /\ BuildTried
    /\ trial.err = "InvalidParameter"
    /\ ~trial.input.outFrame.null
    /\ ~trial.input.payload.null
    /\ trial.input.payload.length <= 65535
    /\ trial.input.outFrame.length >= 8
    /\ trial.input.outFrame.length < 8 + trial.input.payload.length

\* -------------------------------------------------------- oversized runs

\* The number of the last 0x00 before byte d of the last feed, 0 if there is
\* none.
DelimiterBefore(d) ==
    IF \E k \in 1 .. d - 1 : cur.input[k] = 0
    THEN CHOOSE k \in 1 .. d - 1 :
            cur.input[k] = 0 /\ \A j \in k + 1 .. d - 1 : cur.input[j] # 0
    ELSE 0

\* Byte d of the last feed is a delimiter that ends a run of non-zero bytes
\* which began after a delimiter of this feed or, in the first feed, with
\* the framer's first byte.
EndsRun(d) ==
    /\ cur.input[d] = 0
    /\ DelimiterBefore(d) > 0 \/ feeds = 1

\* C30: when more than MaxPacketSize non-zero bytes arrive between two
\* delimiters, processByte reports FrameTooLarge in the run and the
\* delimiter that ends the run invokes no callback.
OverrunDropped ==
    cur.kind # "none" =>
        \A d \in 1 .. Len(cur.input) :
            (EndsRun(d) /\ d - DelimiterBefore(d) - 1 > kMaxPacketSize)
                => /\ \E i \in DelimiterBefore(d) + 1 .. d - 1 :
                            cur.results[i] = "FrameTooLarge"
                   /\ d \notin { cur.callAt[j] : j \in 1 .. Len(cur.callAt) }

\* C29: what a Writer wrote into a large enough buffer, a Reader over the
\* bytes written reads back: every read succeeds, the values are those
\* written, and fullyConsumed() is true afterwards.  Reader::read(bool)
\* fails on a byte greater than 1.
MarshalRoundTrips ==
    /\ (trial.done /\ trial.op = "marshal") =>
            /\ trial.ok
            /\ trial.length = SizeOfItems(trial.input, 0)
            /\ trial.decOk
            /\ trial.dec = trial.input
            /\ trial.consumed
    /\ (trial.done /\ trial.op = "readBool" /\ trial.input # << >>) =>
            /\ trial.input[1] > 1 => ~trial.decOk
            /\ trial.input[1] <= 1 =>
                    (trial.decOk /\ trial.dec = (trial.input[1] = 1))

\* One item of every scalar type and an array, negative values among them,
\* have been written and read back.
MarshalRoundTripsWitness ==
    /\ trial.done
    /\ trial.op = "marshal"
    /\ Len(trial.input) = 10
    /\ trial.decOk
    /\ trial.consumed
    /\ trial.dec[2] = << "i8", -128 >>
    /\ trial.out[2] = 128

\* C26: publish<M>(id, msg) puts on the transport the bytes that
\* publish(id, M::kMsgHash, p) would, p being the encoding of msg in a
\* buffer of its own, and returns what it would; the frame scratch holds the
\* encoding after the header, no byte of it lost to the packet the packet
\* scratch then receives.  A message that does not encode puts nothing on
\* the transport.
TypedEqualsRaw ==
    (trial.done /\ trial.op = "publishMsg") =>
        /\ trial.ok =>
                /\ trial.out.ring = trial.dec.ring
                /\ trial.out.err = trial.dec.err
                /\ trial.out.writes = trial.dec.writes
                /\ trial.err = "OK" =>
                        SubSeq(trial.out.txFrame, kHeaderSize + 1,
                               kHeaderSize + trial.length) = trial.payload
        /\ ~trial.ok =>
                /\ trial.out.ring = << >>
                /\ trial.out.writes = 0
                /\ trial.err = "InvalidParameter"

\* A message that fills the payload has been published on a node whose
\* scratch held an earlier packet, and the packet is in the ring.
TypedEqualsRawWitness ==
    /\ trial.done
    /\ trial.op = "publishMsg"
    /\ trial.input.before[1] = "raw"
    /\ trial.ok
    /\ trial.length = MaxPayloadSize
    /\ trial.err = "OK"
    /\ Len(trial.out.ring) > kHeaderSize + MaxPayloadSize
    /\ trial.out.txPacket # NodeBefore(trial.input).txPacket

\* C27: a publish made by a handler that poll invoked leaves the framer's
\* receive buffer, its receive index and the handler table as they were;
\* the payload span the handler holds has the same bytes after the publish
\* as before; and the packet a handler puts on the transport by publishing
\* its payload span carries the payload received.
PublishInHandler ==
    (trial.done /\ trial.op = "echo") =>
        /\ trial.length = Len(trial.input.payloads)
        /\ \A k \in 1 .. Len(trial.dec) :
            /\ trial.dec[k].given = trial.input.payloads[k]
            /\ trial.dec[k].after.rxBuffer = trial.dec[k].before.rxBuffer
            /\ trial.dec[k].after.rxIndex = trial.dec[k].before.rxIndex
            /\ trial.dec[k].after.handlers = trial.dec[k].before.handlers
            /\ trial.dec[k].held = trial.dec[k].given
            /\ trial.dec[k].err = "OK" =>
                    /\ Len(trial.dec[k].heard) = 1
                    /\ trial.dec[k].heard[1].payload = trial.dec[k].given
                    /\ trial.dec[k].heard[1].msgHash = trial.dec[k].msgHash

\* Two packets were in the ring, the handler published both payloads, the
\* first with a zero byte in it, and both packets went out.
PublishInHandlerWitness ==
    /\ trial.done
    /\ trial.op = "echo"
    /\ trial.input.storage = 255
    /\ trial.length = 2
    /\ Len(trial.dec[1].given) = MaxPayloadSize
    /\ \E i \in 1 .. MaxPayloadSize : trial.dec[1].given[i] = 0
    /\ trial.dec[1].err = "OK"
    /\ trial.dec[2].err = "OK"
    /\ Len(trial.dec[2].given) = 1
    /\ trial.dec[1].after.txPacket # trial.dec[1].before.txPacket

\* rxIndex_ before byte number k of the last feed.
IndexBefore(k) == IF k = 1 THEN cur.startIdx ELSE cur.idxs[k - 1]

\* C31: rxIndex_ is always between 0 and MaxPacketSize and rxBuffer_ keeps
\* its MaxPacketSize bytes; a non-zero byte that finds rxIndex_ below
\* MaxPacketSize is stored at rxIndex_ and advances it by one, and after any
\* other byte, a 0x00 or a non-zero byte on overflow, rxIndex_ is 0.
IndexDiscipline ==
    /\ rxIndex \in 0 .. kMaxPacketSize
    /\ Len(rxBuffer) = kMaxPacketSize
    /\ \A k \in 1 .. Len(cur.idxs) :
        /\ cur.idxs[k] \in 0 .. kMaxPacketSize
        /\ IF cur.input[k] # 0 /\ IndexBefore(k) < kMaxPacketSize
           THEN cur.idxs[k] = IndexBefore(k) + 1
           ELSE cur.idxs[k] = 0
    /\ (cur.kind # "none" /\ cur.input # << >>) => rxIndex = Last(cur.idxs)
    /\ (cur.kind # "none" /\ cur.input # << >> /\ Last(cur.input) # 0
            /\ rxIndex > 0) => rxBuffer[rxIndex] = Last(cur.input)

\* A feed found the buffer full or filled it, overflowed it, began again at
\* 0 and was ended by a delimiter.
IndexDisciplineWitness ==
    /\ cur.kind # "none"
    /\ \E k \in 1 .. Len(cur.idxs) - 2 :
        /\ IndexBefore(k) = kMaxPacketSize
        /\ cur.input[k] # 0
        /\ cur.idxs[k] = 0
        /\ cur.idxs[k + 1] = 1
    /\ Last(cur.input) = 0
    /\ rxIndex = 0

\* C32: a packet that with its delimiter is longer than MaxPacketSize, fed
\* to a Framer that was idle, is answered with FrameTooLarge and its frame is
\* not given to the callback.
SizeLimitDocumented ==
    (cur.kind \in { "packet", "long" } /\ cur.startIdx = 0
        /\ Len(cur.input) > kMaxPacketSize) =>
            /\ \E k \in 1 .. Len(cur.results) :
                    cur.results[k] = "FrameTooLarge"
            /\ cur.calls = << >>

\* A packet of MaxPacketSize + 1 bytes with its delimiter was fed to an idle
\* Framer, every processByte returned OK and the callback got the frame.
SizeLimitExceeded ==
    /\ cur.kind = "long"
    /\ cur.startIdx = 0
    /\ cur.thunk
    /\ cur.ret = "OK"
    /\ Len(cur.input) = kMaxPacketSize + 1
    /\ \A k \in 1 .. Len(cur.results) : cur.results[k] = "OK"
    /\ cur.calls = << cur.frame >>

\* A packet of MaxPacketSize + 2 bytes with its delimiter was fed to an idle
\* Framer, one processByte returned FrameTooLarge and the callback got
\* nothing.
SizeLimitKept ==
    /\ cur.kind = "long"
    /\ cur.startIdx = 0
    /\ cur.thunk
    /\ Len(cur.input) = kMaxPacketSize + 2
    /\ \E k \in 1 .. Len(cur.results) : cur.results[k] = "FrameTooLarge"
    /\ cur.calls = << >>

\* The checks of onPacket that the frame last given fails, each taken on its
\* own: the span, its length, the version byte, the length field, the msg_id.
FailsData == rlast.frame.null
FailsHeaderSize == rlast.frame.length < kFrameHeaderSize
FailsVersion == rlast.frame.data[1] # expectedVersion
FailsLength ==
    rlast.frame.length # kFrameHeaderSize + read_u16_be(rlast.frame.data, 6)
FailsLookup == UsedFor(handlers, rlast.frame.data[2]) = {}

\* C33: onPacket returns the error of the first check that fails, in the
\* order null data (InvalidParameter), length under 8 (FrameHeaderSize),
\* version (MsgVersionMismatch), length field (MsgLengthMismatch), handler
\* lookup (MsgIdUnknown); a frame that fails a check reaches no handler.
CheckPrecedence ==
    rlast.kind = "dispatch" =>
        IF FailsData THEN rlast.err = "InvalidParameter" /\ rlast.calls = << >>
        ELSE IF FailsHeaderSize
        THEN rlast.err = "FrameHeaderSize" /\ rlast.calls = << >>
        ELSE IF FailsVersion
        THEN rlast.err = "MsgVersionMismatch" /\ rlast.calls = << >>
        ELSE IF FailsLength
        THEN rlast.err = "MsgLengthMismatch" /\ rlast.calls = << >>
        ELSE FailsLookup =>
                rlast.err = "MsgIdUnknown" /\ rlast.calls = << >>

\* A frame with a wrong version and a wrong length field was given
\* MsgVersionMismatch.
CheckPrecedenceWitness ==
    /\ rlast.kind = "dispatch"
    /\ rlast.change = "versionLen"
    /\ ~FailsData /\ ~FailsHeaderSize /\ FailsVersion /\ FailsLength
    /\ rlast.err = "MsgVersionMismatch"

\* A frame with a wrong length field and a msg_id that has no handler was
\* given MsgLengthMismatch.
LengthBeforeLookup ==
    /\ rlast.kind = "dispatch"
    /\ ~FailsData /\ ~FailsHeaderSize /\ ~FailsVersion
    /\ FailsLength /\ FailsLookup
    /\ rlast.err = "MsgLengthMismatch"

\* The last poll was one of an idle node whose ring held the packets of
\* publishes of its peer that returned OK and nothing else, the peer's
\* expectedVersion being the node's.
AllPublished ==
    /\ plast.node # ""
    /\ plast.startIdx = 0
    /\ node[Peer(plast.node)].expectedVersion
            = node[plast.node].expectedVersion
    /\ \A k \in 1 .. Len(plast.sent) : plast.sent[k].kind = "publish"

\* C34: poll returns the number of bytes it read for which processByte did
\* not return OK.  For a frame given to onPacket, processByte's result on
\* the delimiter is what onPacket returned, and that is what the handler
\* returned when one was invoked; so a handler's error counts once and the
\* packets after it are dispatched all the same.
ErrorTally ==
    plast.node # "" =>
        /\ plast.errors = Cardinality(PollErrors)
        /\ Len(plast.results) = Len(plast.input)
        /\ \A k \in 1 .. Len(plast.log) :
                /\ plast.log[k].at \in 1 .. Len(plast.input)
                /\ plast.input[plast.log[k].at] = 0
                /\ plast.results[plast.log[k].at] = plast.log[k].err
                /\ \A j \in 1 .. Len(plast.log) :
                        j # k => plast.log[j].at # plast.log[k].at
                /\ plast.log[k].calls # << >> =>
                        \A i \in NodeSlotsFor(plast.node,
                                              plast.log[k].frame[2]) :
                            plast.log[k].err = node[plast.node].handlers[i].ret
        /\ AllPublished =>
                /\ Len(plast.log) = Len(plast.sent)
                /\ \A k \in 1 .. Len(plast.sent) :
                     \A i \in NodeSlotsFor(plast.node, plast.sent[k].msgId) :
                        plast.log[k].calls
                            = << CallFor(node[plast.node].handlers[i],
                                         plast.sent[k]) >>

\* B, whose handler for id 9 returns an error, polled the packets of two
\* publishes for id 9: two calls, and poll returned 2.
ErrorTallyWitness ==
    /\ AllPublished
    /\ Len(plast.sent) = 2
    /\ \A k \in 1 .. 2 :
            /\ plast.sent[k].msgId = 9
            /\ Len(plast.log[k].calls) = 1
            /\ plast.log[k].err = "TransportError"
    /\ plast.errors = 2

\* C35: cobsDecodeInPlace stores every byte at an index below its read
\* index of that moment, whether it then succeeds or fails, and a decoded
\* length it yields is no more than the encoded length.
DecodeInPlaceSafe ==
    (trial.done /\ trial.op \in { "decode", "cobs" }) =>
        /\ trial.below
        /\ trial.decOk =>
                trial.decLength
                    <= (IF trial.op = "decode" THEN Len(trial.input)
                        ELSE trial.length)

\* A region of a full block and two short groups has been decoded: 257
\* bytes stored, the last of them next to the last byte read.
DecodeInPlaceSafeWitness ==
    /\ DecodeTried
    /\ trial.input = << 2, 7, 255 >> \o Fill(254, 1) \o << 2, 7 >>
    /\ trial.decOk
    /\ trial.writes = trial.decLength
    /\ trial.decLength = Len(trial.input) - 2

\* A poll has been called and has not returned.
PollRunning == plast.node # "" /\ plast.pc # "done"

\* A poll has returned.
PollReturned == plast.node # "" /\ plast.pc = "done"

\* The bytes given to processByte are the bytes read, in the order read, but
\* for the one the body is about to be given.
FedAsRead ==
    plast.node # "" =>
        plast.got = (IF plast.pc = "body" THEN Append(plast.fed, plast.byte)
                     ELSE plast.fed)

\* A poll that has returned did so after a read that returned false, has
\* given processByte every byte that was in the ring at the call, once and
\* in the ring's order, has left the ring empty, and has yielded what the
\* loop taken as a whole yields.
DrainedAtReturn ==
    PollReturned =>
        /\ ~plast.more
        /\ plast.fed = plast.input
        /\ Len(plast.results) = Len(plast.input)
        /\ link[plast.node] = << >>
        /\ plast.errors = poll(plast.start, plast.input).st.errors
        /\ plast.results = poll(plast.start, plast.input).st.results
        /\ plast.log = poll(plast.start, plast.input).st.log
        /\ node[plast.node].rxBuffer = poll(plast.start, plast.input).st.buf
        /\ node[plast.node].rxIndex = poll(plast.start, plast.input).st.idx

\* C36: with finitely many bytes in the transport and none added while it
\* runs, poll terminates; it gives processByte every byte transport.read
\* returned, once each and in the order read, and returns only after
\* transport.read has returned false.
PollDrains ==
    /\ [](FedAsRead /\ DrainedAtReturn)
    /\ PollRunning ~> PollReturned

\* A poll has returned after two packets: every byte of both was read and
\* given to processByte.
PollDrainsWitness ==
    /\ PollReturned
    /\ Len(plast.sent) = 2
    /\ Len(plast.input) > kMaxPacketSize
    /\ plast.fed = plast.input
    /\ Len(plast.log) = 2

\* A stream has been polled in pieces and whole.
ChunksTried == trial.done /\ trial.op = "chunks"

\* The dispatches of the polls in pieces that were made on a byte of piece
\* number i.
InPiece(i) ==
    { k \in 1 .. Len(trial.out) :
        /\ trial.out[k].at > (IF i = 1 THEN 0
                              ELSE IF i = 2 THEN trial.input[2]
                              ELSE trial.input[3])
        /\ trial.out[k].at <= (IF i = 1 THEN trial.input[2]
                               ELSE IF i = 2 THEN trial.input[3]
                               ELSE Len(trial.input[1])) }

\* C37: however a stream is cut into pieces for successive polls, the
\* frames dispatched, the handlers invoked with their arguments and what
\* they returned are those of one poll of the whole stream, in the same
\* order, and so is the sum of the values poll returned; each dispatch is
\* made once, by the poll that reads the packet's delimiter.
ChunkingIndependent ==
    ChunksTried =>
        /\ trial.out = trial.dec
        /\ trial.length = trial.decLength
        /\ \A k \in 1 .. Len(trial.out) :
                trial.input[1][trial.out[k].at] = 0
        /\ \A i \in 1 .. 3 : trial.payload[i] = Cardinality(InPiece(i))

\* Two packets were polled in three pieces, the cuts inside the first and
\* inside the second: the second poll called the handler for id 7, the third
\* the one for id 9, whose error is the only one counted.
ChunkingIndependentWitness ==
    /\ ChunksTried
    /\ trial.input[1] = Wire7 \o Wire9
    /\ trial.input[2] \in 1 .. Len(Wire7) - 1
    /\ trial.input[3] \in Len(Wire7) + 1 .. Len(Wire7) + Len(Wire9) - 1
    /\ trial.payload = << 0, 1, 1 >>
    /\ Len(trial.out) = 2
    /\ Len(trial.out[1].calls) = 1 /\ Len(trial.out[2].calls) = 1
    /\ trial.length = 1

\* The callbacks of the last feed that were made after its first byte.
CallsAfterFirst == { k \in 1 .. Len(cur.callAt) : cur.callAt[k] > 1 }

\* C38: whatever the framer had received, after one 0x00 the bytes of a
\* valid packet that fits cause exactly one callback, on the packet's
\* delimiter and with the packet's frame, and every processByte of the
\* packet's bytes before the delimiter returns OK.
DelimiterResyncs ==
    (cur.kind = "resync" /\ cur.thunk) =>
        /\ Cardinality(CallsAfterFirst) = 1
        /\ \A k \in CallsAfterFirst :
                /\ cur.callAt[k] = Len(cur.input)
                /\ cur.calls[k] = cur.frame
        /\ cur.idxs[1] = 0
        /\ \A k \in 2 .. Len(cur.input) - 1 : cur.results[k] = "OK"
        /\ Last(cur.results) = cur.ret

\* A framer whose buffer was full of bytes of no packet was fed a 0x00 and
\* a packet: the 0x00 returned an error, the packet's frame was delivered.
DelimiterResyncsWitness ==
    /\ cur.kind = "resync"
    /\ cur.thunk
    /\ cur.startIdx = kMaxPacketSize
    /\ cur.results[1] # "OK"
    /\ cur.frame = << 1, 7, 18, 52, 86, 120, 0, 4, 1, 2, 3, 4 >>
    /\ cur.calls = << cur.frame >>

\* cobsEncode2 and createPacket have been given an output of some capacity.
CappedTried == trial.done /\ trial.op = "capped"

\* C39: whatever the inputs and the capacity of the output, cobsEncode2
\* stores no byte at an index at or beyond the capacity; it returns false
\* exactly when the encoding, as it makes it with room enough, is longer
\* than the capacity, and otherwise yields that encoding; and when
\* cobsEncode2 fails in createPacket, createPacket returns InvalidParameter
\* and leaves packet.length as it was.
EncoderBounded ==
    CappedTried =>
        /\ trial.out.inside /\ trial.payload.small.inside
        /\ trial.dec.ok /\ trial.payload.ample.ok
        /\ trial.out.ok <=> trial.dec.length <= trial.input[3]
        /\ trial.out.ok =>
                /\ trial.out.length = trial.dec.length
                /\ SubSeq(trial.out.out, 1, trial.out.length)
                        = SubSeq(trial.dec.out, 1, trial.dec.length)
        /\ ~trial.out.ok => trial.out.length = 77
        /\ trial.payload.small.ok
                <=> trial.payload.ample.length <= trial.input[3]
        /\ ~trial.payload.small.ok =>
                /\ trial.payload.pkt.err = "InvalidParameter"
                /\ trial.payload.pkt.length = trial.input[3]

\* An output one byte too small for a full block and the code after it:
\* cobsEncode2 returned false with no byte stored past the end, and
\* createPacket returned InvalidParameter with packet.length as it was.
EncoderBoundedWitness ==
    /\ CappedTried
    /\ trial.input[1] = Fill(254, 1)
    /\ trial.input[2] = << >>
    /\ trial.input[3] = 255
    /\ trial.dec.length = 256
    /\ ~trial.out.ok
    /\ trial.out.inside
    /\ ~trial.payload.small.ok
    /\ trial.payload.pkt.err = "InvalidParameter"
    /\ trial.payload.pkt.length = 255

\* A write and a read have been made at some place of their buffers.
CursorTried == trial.done /\ trial.op = "cursor"

\* The write returned false.
WriteFailed == CursorTried /\ ~trial.out.now.ok

\* The read returned false.
ReadFailed == CursorTried /\ ~trial.dec.now.ok

\* The read was of a bool whose byte was there and was neither 0 nor 1.
BoolInvalid ==
    /\ CursorTried
    /\ trial.input[1][1] = "bool"
    /\ ReaderEnsure(trial.dec.was, 1)
    /\ trial.input[3].data[trial.dec.was.index + 1] > 1

\* A write that returned false left bytesWritten and the bytes alone.
FailedWriteKeeps ==
    WriteFailed =>
        /\ trial.out.now.index = trial.out.was.index
        /\ trial.out.now.out = trial.out.was.out

\* C40 as stated: whenever Writer::write or a scalar Reader::read returns
\* false, read(bool) on an invalid byte included, the cursor is where it
\* was before the call.
CursorKeptOnFailure ==
    /\ FailedWriteKeeps
    /\ ReadFailed => trial.dec.now.index = trial.dec.was.index

\* C40, amended: a write or a scalar read that returns false for lack of
\* room or of bytes leaves the cursor where it was, and these with
\* read(bool) on a byte other than 0 and 1 are the only failures;
\* read(bool) on such a byte returns false with the cursor one byte
\* further, the byte being consumed.
CursorKeptOnUnderflow ==
    CursorTried =>
        /\ FailedWriteKeeps
        /\ WriteFailed
                <=> ~WriterEnsure(trial.out.was, SizeOf(trial.input[1][1]))
        /\ ReadFailed <=>
                \/ ~ReaderEnsure(trial.dec.was, SizeOf(trial.input[1][1]))
                \/ BoolInvalid
        /\ (ReadFailed /\ ~BoolInvalid) =>
                trial.dec.now.index = trial.dec.was.index
        /\ BoolInvalid =>
                /\ ReadFailed
                /\ trial.dec.now.index = trial.dec.was.index + 1

\* After three bytes a bool is written to a buffer of three bytes and read
\* from a buffer whose fourth byte is 2: both calls returned false, the
\* writer at 3 as before and the reader at 4.
CursorKeptOnUnderflowWitness ==
    /\ WriteFailed
    /\ ReadFailed
    /\ BoolInvalid
    /\ trial.input[2].length = 3
    /\ trial.out.was.index = 3
    /\ trial.out.now.index = 3
    /\ trial.dec.was.index = 3
    /\ trial.dec.now.index = 4
    /\ trial.input[3].length > 4

====
